---------------------------- MODULE Spec2Model ----------------------------
(***************************************************************************)
(* Model of the mapa-clientes repository:                                  *)
(*   - tools/convert_mymaps_csv.py: the three text utilities               *)
(*     (extract_lon_lat_from_wkt, fix_mojibake_text,                       *)
(*     split_standard_description) and the conversion routine              *)
(*     convert_mymaps_csv;                                                 *)
(*   - app.py: the session_state filter control of the dashboard script.   *)
(*                                                                         *)
(* Text is a sequence of Unicode code points.  A Python value is a record  *)
(* whose field t is the Python type name: v is the text of a str, and a    *)
(* float is NaN, an infinity, or the double named by its sign and the      *)
(* shortest decimal 0.sig * 10^decpt that reads back as it.                *)
(***************************************************************************)
EXTENDS Integers, Sequences, FiniteSets, TLC

VARIABLES
    call,               \* SpecFn: the utility called and its argument
    ret,                \* SpecFn: what the call returned
    in_columns,         \* SpecConv: the header of the input file, as loaded
    in_rows,            \* SpecConv: the rows of the input file, as loaded
    columns,            \* SpecConv: df.columns, in file order
    df,                 \* SpecConv: the rows of df, each a sequence of cells
    cols_lower,         \* SpecConv: the dict {c.lower(): c}, in insertion order
    pc,                 \* SpecConv: position inside convert_mymaps_csv
    wkt_col,            \* SpecConv: located geometry column
    nombre_col,         \* SpecConv: located label column
    descr_col,          \* SpecConv: located description column
    final,              \* SpecConv: the rows of the final DataFrame
    out_file,           \* SpecConv: the output file on disk
    nan_as_text,        \* SpecConv: whether the installed pandas writes NaN as "nan"
    zonas_sel,          \* SpecApp: value of the zone multiselect
    boticas_sel,        \* SpecApp: value of the botica multiselect
    filtrar_boticas,    \* SpecApp: st.session_state.filtrar_boticas
    boticas_filtradas,  \* SpecApp: st.session_state.boticas_filtradas
    df_filtrado,        \* SpecApp: rows shown by the last rerun
    button_pressed      \* SpecApp: what st.sidebar.button returned in the last rerun

fnVars   == <<call, ret>>
convVars == <<in_columns, in_rows, columns, df, cols_lower, pc, wkt_col, nombre_col, descr_col,
              final, out_file, nan_as_text>>
appVars  == <<zonas_sel, boticas_sel, filtrar_boticas, boticas_filtradas, df_filtrado,
              button_pressed>>
vars     == <<fnVars, convVars, appVars>>

(***************************************************************************)
(* Bounds of the model.                                                    *)
(***************************************************************************)
MaxTok  == 3    \* longest coordinate token drawn for extract_lon_lat_from_wkt
MaxText == 3    \* longest free text drawn for fix_mojibake_text
MaxSegs == 6    \* most dash-separated segments drawn for a description
MaxCols == 3    \* most columns of an input file
MaxRows == 1    \* most rows of an input file drawn with every kind of row

(***************************************************************************)
(* Python values.                                                          *)
(***************************************************************************)
PyNone ==
    [t |-> "NoneType", v |-> <<>>, nan |-> FALSE, inf |-> FALSE, neg |-> FALSE,
     sig |-> <<>>, decpt |-> 0]
\* float('nan'): what pandas holds for an empty CSV cell.
PyNaN ==
    [t |-> "float", v |-> <<>>, nan |-> TRUE, inf |-> FALSE, neg |-> FALSE,
     sig |-> <<>>, decpt |-> 0]
PyStr(s) ==
    [t |-> "str", v |-> s, nan |-> FALSE, inf |-> FALSE, neg |-> FALSE,
     sig |-> <<>>, decpt |-> 0]
\* A finite float, named by the shortest decimal that reads back as it:
\* 0.sig * 10^decpt with sig digit characters that neither start nor end
\* with "0", negative when neg.  No digits is zero; PyFloat(TRUE, <<>>, 0)
\* is -0.0.
PyFloat(neg, sig, decpt) ==
    [t |-> "float", v |-> <<>>, nan |-> FALSE, inf |-> FALSE, neg |-> neg,
     sig |-> sig, decpt |-> decpt]
\* float('inf') and float('-inf').
PyInf(neg) ==
    [t |-> "float", v |-> <<>>, nan |-> FALSE, inf |-> TRUE, neg |-> neg,
     sig |-> <<>>, decpt |-> 0]
IsStr(x)     == x.t = "str"
\* pandas isna: None and NaN.
IsMissing(x) == x.t = "NoneType" \/ (x.t = "float" /\ x.nan)

(***************************************************************************)
(* Characters.                                                             *)
(***************************************************************************)
\* The characters str.strip() removes and the regex class \s matches on str:
\* those of str.isspace().
Whitespace == {9, 10, 11, 12, 13, 28, 29, 30, 31, 32, 133, 160, 5760}
              \cup (8192..8202) \cup {8232, 8233, 8239, 8287, 12288}
Digits     == 48..57
\* The regex class [\-0-9].
MinusDigits == Digits \cup {45}
\* The regex class [-–—]: hyphen, en dash, em dash.
Dashes     == {45, 8211, 8212}

Min(S) == CHOOSE x \in S : \A y \in S : x <= y
Max(S) == CHOOSE x \in S : \A y \in S : x >= y

LStrip(s, chars) ==
    LET first == {i \in 1..Len(s) : /\ s[i] \notin chars
                                    /\ \A j \in 1..i - 1 : s[j] \in chars}
    IN  IF first = {} THEN <<>>
        ELSE SubSeq(s, CHOOSE i \in first : TRUE, Len(s))

RStrip(s, chars) ==
    LET last == {i \in 1..Len(s) : /\ s[i] \notin chars
                                   /\ \A j \in i + 1..Len(s) : s[j] \in chars}
    IN  IF last = {} THEN <<>>
        ELSE SubSeq(s, 1, CHOOSE i \in last : TRUE)

\* str.strip(chars); str.strip() is StripChars(s, Whitespace).
StripChars(s, chars) == RStrip(LStrip(s, chars), chars)

\* First index j >= i of s whose character is outside chars (Len(s)+1 if none):
\* where a greedy run of the class chars that starts at i ends.
RunEnd(s, i, chars) ==
    CHOOSE j \in i..Max({i, Len(s) + 1}) :
        /\ j > Len(s) \/ s[j] \notin chars
        /\ \A k \in i..j - 1 : s[k] \in chars

\* Whether s holds lit at index i.
HasAt(s, i, lit) ==
    /\ i + Len(lit) - 1 <= Len(s)
    /\ SubSeq(s, i, i + Len(lit) - 1) = lit

\* str.startswith
StartsWith(s, lit) == HasAt(s, 1, lit)

\* First index >= i where s holds lit, 0 if none (str.find).
RECURSIVE Find(_, _, _)
Find(s, i, lit) ==
    IF i + Len(lit) - 1 > Len(s) THEN 0
    ELSE IF HasAt(s, i, lit) THEN i
    ELSE Find(s, i + 1, lit)

\* Whether lit occurs in s (the Python operator `in` on str).
Contains(s, lit) == Find(s, 1, lit) # 0

\* The case tables below are those of str.lower() and str.upper() in
\* CPython 3.11 (Unicode 14.0).  A run <<first, last, step, delta>> maps
\* every step-th code point c of first..last to c + delta.
LowerRuns == {
    <<65, 90, 1, 32>>, <<192, 214, 1, 32>>, <<216, 222, 1, 32>>,
    <<256, 302, 2, 1>>, <<306, 310, 2, 1>>, <<313, 327, 2, 1>>,
    <<330, 374, 2, 1>>, <<376, 376, 1, -121>>, <<377, 381, 2, 1>>,
    <<385, 385, 1, 210>>, <<386, 388, 2, 1>>, <<390, 390, 1, 206>>,
    <<391, 391, 1, 1>>, <<393, 394, 1, 205>>, <<395, 395, 1, 1>>,
    <<398, 398, 1, 79>>, <<399, 399, 1, 202>>, <<400, 400, 1, 203>>,
    <<401, 401, 1, 1>>, <<403, 403, 1, 205>>, <<404, 404, 1, 207>>,
    <<406, 406, 1, 211>>, <<407, 407, 1, 209>>, <<408, 408, 1, 1>>,
    <<412, 412, 1, 211>>, <<413, 413, 1, 213>>, <<415, 415, 1, 214>>,
    <<416, 420, 2, 1>>, <<422, 422, 1, 218>>, <<423, 423, 1, 1>>,
    <<425, 425, 1, 218>>, <<428, 428, 1, 1>>, <<430, 430, 1, 218>>,
    <<431, 431, 1, 1>>, <<433, 434, 1, 217>>, <<435, 437, 2, 1>>,
    <<439, 439, 1, 219>>, <<440, 440, 1, 1>>, <<444, 444, 1, 1>>,
    <<452, 452, 1, 2>>, <<453, 453, 1, 1>>, <<455, 455, 1, 2>>,
    <<456, 456, 1, 1>>, <<458, 458, 1, 2>>, <<459, 475, 2, 1>>,
    <<478, 494, 2, 1>>, <<497, 497, 1, 2>>, <<498, 500, 2, 1>>,
    <<502, 502, 1, -97>>, <<503, 503, 1, -56>>, <<504, 542, 2, 1>>,
    <<544, 544, 1, -130>>, <<546, 562, 2, 1>>, <<570, 570, 1, 10795>>,
    <<571, 571, 1, 1>>, <<573, 573, 1, -163>>, <<574, 574, 1, 10792>>,
    <<577, 577, 1, 1>>, <<579, 579, 1, -195>>, <<580, 580, 1, 69>>,
    <<581, 581, 1, 71>>, <<582, 590, 2, 1>>, <<880, 882, 2, 1>>,
    <<886, 886, 1, 1>>, <<895, 895, 1, 116>>, <<902, 902, 1, 38>>,
    <<904, 906, 1, 37>>, <<908, 908, 1, 64>>, <<910, 911, 1, 63>>,
    <<913, 929, 1, 32>>, <<931, 939, 1, 32>>, <<975, 975, 1, 8>>,
    <<984, 1006, 2, 1>>, <<1012, 1012, 1, -60>>, <<1015, 1015, 1, 1>>,
    <<1017, 1017, 1, -7>>, <<1018, 1018, 1, 1>>, <<1021, 1023, 1, -130>>,
    <<1024, 1039, 1, 80>>, <<1040, 1071, 1, 32>>, <<1120, 1152, 2, 1>>,
    <<1162, 1214, 2, 1>>, <<1216, 1216, 1, 15>>, <<1217, 1229, 2, 1>>,
    <<1232, 1326, 2, 1>>, <<1329, 1366, 1, 48>>, <<4256, 4293, 1, 7264>>,
    <<4295, 4295, 1, 7264>>, <<4301, 4301, 1, 7264>>,
    <<5024, 5103, 1, 38864>>, <<5104, 5109, 1, 8>>, <<7312, 7354, 1, -3008>>,
    <<7357, 7359, 1, -3008>>, <<7680, 7828, 2, 1>>, <<7838, 7838, 1, -7615>>,
    <<7840, 7934, 2, 1>>, <<7944, 7951, 1, -8>>, <<7960, 7965, 1, -8>>,
    <<7976, 7983, 1, -8>>, <<7992, 7999, 1, -8>>, <<8008, 8013, 1, -8>>,
    <<8025, 8031, 2, -8>>, <<8040, 8047, 1, -8>>, <<8072, 8079, 1, -8>>,
    <<8088, 8095, 1, -8>>, <<8104, 8111, 1, -8>>, <<8120, 8121, 1, -8>>,
    <<8122, 8123, 1, -74>>, <<8124, 8124, 1, -9>>, <<8136, 8139, 1, -86>>,
    <<8140, 8140, 1, -9>>, <<8152, 8153, 1, -8>>, <<8154, 8155, 1, -100>>,
    <<8168, 8169, 1, -8>>, <<8170, 8171, 1, -112>>, <<8172, 8172, 1, -7>>,
    <<8184, 8185, 1, -128>>, <<8186, 8187, 1, -126>>, <<8188, 8188, 1, -9>>,
    <<8486, 8486, 1, -7517>>, <<8490, 8490, 1, -8383>>,
    <<8491, 8491, 1, -8262>>, <<8498, 8498, 1, 28>>, <<8544, 8559, 1, 16>>,
    <<8579, 8579, 1, 1>>, <<9398, 9423, 1, 26>>, <<11264, 11311, 1, 48>>,
    <<11360, 11360, 1, 1>>, <<11362, 11362, 1, -10743>>,
    <<11363, 11363, 1, -3814>>, <<11364, 11364, 1, -10727>>,
    <<11367, 11371, 2, 1>>, <<11373, 11373, 1, -10780>>,
    <<11374, 11374, 1, -10749>>, <<11375, 11375, 1, -10783>>,
    <<11376, 11376, 1, -10782>>, <<11378, 11378, 1, 1>>,
    <<11381, 11381, 1, 1>>, <<11390, 11391, 1, -10815>>,
    <<11392, 11490, 2, 1>>, <<11499, 11501, 2, 1>>, <<11506, 11506, 1, 1>>,
    <<42560, 42604, 2, 1>>, <<42624, 42650, 2, 1>>, <<42786, 42798, 2, 1>>,
    <<42802, 42862, 2, 1>>, <<42873, 42875, 2, 1>>,
    <<42877, 42877, 1, -35332>>, <<42878, 42886, 2, 1>>,
    <<42891, 42891, 1, 1>>, <<42893, 42893, 1, -42280>>,
    <<42896, 42898, 2, 1>>, <<42902, 42920, 2, 1>>,
    <<42922, 42922, 1, -42308>>, <<42923, 42923, 1, -42319>>,
    <<42924, 42924, 1, -42315>>, <<42925, 42925, 1, -42305>>,
    <<42926, 42926, 1, -42308>>, <<42928, 42928, 1, -42258>>,
    <<42929, 42929, 1, -42282>>, <<42930, 42930, 1, -42261>>,
    <<42931, 42931, 1, 928>>, <<42932, 42946, 2, 1>>,
    <<42948, 42948, 1, -48>>, <<42949, 42949, 1, -42307>>,
    <<42950, 42950, 1, -35384>>, <<42951, 42953, 2, 1>>,
    <<42960, 42960, 1, 1>>, <<42966, 42968, 2, 1>>, <<42997, 42997, 1, 1>>,
    <<65313, 65338, 1, 32>>, <<66560, 66599, 1, 40>>,
    <<66736, 66771, 1, 40>>, <<66928, 66964, 2, 39>>,
    <<66929, 66937, 2, 39>>, <<66941, 66953, 2, 39>>,
    <<66957, 66961, 2, 39>>, <<66965, 66965, 1, 39>>,
    <<68736, 68786, 1, 64>>, <<71840, 71871, 1, 32>>,
    <<93760, 93791, 1, 32>>, <<125184, 125217, 1, 34>> }

UpperRuns == {
    <<97, 122, 1, -32>>, <<181, 181, 1, 743>>, <<224, 246, 1, -32>>,
    <<248, 254, 1, -32>>, <<255, 255, 1, 121>>, <<257, 303, 2, -1>>,
    <<305, 305, 1, -232>>, <<307, 311, 2, -1>>, <<314, 328, 2, -1>>,
    <<331, 375, 2, -1>>, <<378, 382, 2, -1>>, <<383, 383, 1, -300>>,
    <<384, 384, 1, 195>>, <<387, 389, 2, -1>>, <<392, 392, 1, -1>>,
    <<396, 396, 1, -1>>, <<402, 402, 1, -1>>, <<405, 405, 1, 97>>,
    <<409, 409, 1, -1>>, <<410, 410, 1, 163>>, <<414, 414, 1, 130>>,
    <<417, 421, 2, -1>>, <<424, 424, 1, -1>>, <<429, 429, 1, -1>>,
    <<432, 432, 1, -1>>, <<436, 438, 2, -1>>, <<441, 441, 1, -1>>,
    <<445, 445, 1, -1>>, <<447, 447, 1, 56>>, <<453, 453, 1, -1>>,
    <<454, 454, 1, -2>>, <<456, 456, 1, -1>>, <<457, 457, 1, -2>>,
    <<459, 459, 1, -1>>, <<460, 460, 1, -2>>, <<462, 476, 2, -1>>,
    <<477, 477, 1, -79>>, <<479, 495, 2, -1>>, <<498, 498, 1, -1>>,
    <<499, 499, 1, -2>>, <<501, 501, 1, -1>>, <<505, 543, 2, -1>>,
    <<547, 563, 2, -1>>, <<572, 572, 1, -1>>, <<575, 576, 1, 10815>>,
    <<578, 578, 1, -1>>, <<583, 591, 2, -1>>, <<592, 592, 1, 10783>>,
    <<593, 593, 1, 10780>>, <<594, 594, 1, 10782>>, <<595, 595, 1, -210>>,
    <<596, 596, 1, -206>>, <<598, 599, 1, -205>>, <<601, 601, 1, -202>>,
    <<603, 603, 1, -203>>, <<604, 604, 1, 42319>>, <<608, 608, 1, -205>>,
    <<609, 609, 1, 42315>>, <<611, 611, 1, -207>>, <<613, 613, 1, 42280>>,
    <<614, 614, 1, 42308>>, <<616, 616, 1, -209>>, <<617, 617, 1, -211>>,
    <<618, 618, 1, 42308>>, <<619, 619, 1, 10743>>, <<620, 620, 1, 42305>>,
    <<623, 623, 1, -211>>, <<625, 625, 1, 10749>>, <<626, 626, 1, -213>>,
    <<629, 629, 1, -214>>, <<637, 637, 1, 10727>>, <<640, 640, 1, -218>>,
    <<642, 642, 1, 42307>>, <<643, 643, 1, -218>>, <<647, 647, 1, 42282>>,
    <<648, 648, 1, -218>>, <<649, 649, 1, -69>>, <<650, 651, 1, -217>>,
    <<652, 652, 1, -71>>, <<658, 658, 1, -219>>, <<669, 669, 1, 42261>>,
    <<670, 670, 1, 42258>>, <<837, 837, 1, 84>>, <<881, 883, 2, -1>>,
    <<887, 887, 1, -1>>, <<891, 893, 1, 130>>, <<940, 940, 1, -38>>,
    <<941, 943, 1, -37>>, <<945, 961, 1, -32>>, <<962, 962, 1, -31>>,
    <<963, 971, 1, -32>>, <<972, 972, 1, -64>>, <<973, 974, 1, -63>>,
    <<976, 976, 1, -62>>, <<977, 977, 1, -57>>, <<981, 981, 1, -47>>,
    <<982, 982, 1, -54>>, <<983, 983, 1, -8>>, <<985, 1007, 2, -1>>,
    <<1008, 1008, 1, -86>>, <<1009, 1009, 1, -80>>, <<1010, 1010, 1, 7>>,
    <<1011, 1011, 1, -116>>, <<1013, 1013, 1, -96>>, <<1016, 1016, 1, -1>>,
    <<1019, 1019, 1, -1>>, <<1072, 1103, 1, -32>>, <<1104, 1119, 1, -80>>,
    <<1121, 1153, 2, -1>>, <<1163, 1215, 2, -1>>, <<1218, 1230, 2, -1>>,
    <<1231, 1231, 1, -15>>, <<1233, 1327, 2, -1>>, <<1377, 1414, 1, -48>>,
    <<4304, 4346, 1, 3008>>, <<4349, 4351, 1, 3008>>, <<5112, 5117, 1, -8>>,
    <<7296, 7296, 1, -6254>>, <<7297, 7297, 1, -6253>>,
    <<7298, 7298, 1, -6244>>, <<7299, 7300, 1, -6242>>,
    <<7301, 7301, 1, -6243>>, <<7302, 7302, 1, -6236>>,
    <<7303, 7303, 1, -6181>>, <<7304, 7304, 1, 35266>>,
    <<7545, 7545, 1, 35332>>, <<7549, 7549, 1, 3814>>,
    <<7566, 7566, 1, 35384>>, <<7681, 7829, 2, -1>>, <<7835, 7835, 1, -59>>,
    <<7841, 7935, 2, -1>>, <<7936, 7943, 1, 8>>, <<7952, 7957, 1, 8>>,
    <<7968, 7975, 1, 8>>, <<7984, 7991, 1, 8>>, <<8000, 8005, 1, 8>>,
    <<8017, 8023, 2, 8>>, <<8032, 8039, 1, 8>>, <<8048, 8049, 1, 74>>,
    <<8050, 8053, 1, 86>>, <<8054, 8055, 1, 100>>, <<8056, 8057, 1, 128>>,
    <<8058, 8059, 1, 112>>, <<8060, 8061, 1, 126>>, <<8112, 8113, 1, 8>>,
    <<8126, 8126, 1, -7205>>, <<8144, 8145, 1, 8>>, <<8160, 8161, 1, 8>>,
    <<8165, 8165, 1, 7>>, <<8526, 8526, 1, -28>>, <<8560, 8575, 1, -16>>,
    <<8580, 8580, 1, -1>>, <<9424, 9449, 1, -26>>, <<11312, 11359, 1, -48>>,
    <<11361, 11361, 1, -1>>, <<11365, 11365, 1, -10795>>,
    <<11366, 11366, 1, -10792>>, <<11368, 11372, 2, -1>>,
    <<11379, 11379, 1, -1>>, <<11382, 11382, 1, -1>>,
    <<11393, 11491, 2, -1>>, <<11500, 11502, 2, -1>>,
    <<11507, 11507, 1, -1>>, <<11520, 11557, 1, -7264>>,
    <<11559, 11559, 1, -7264>>, <<11565, 11565, 1, -7264>>,
    <<42561, 42605, 2, -1>>, <<42625, 42651, 2, -1>>,
    <<42787, 42799, 2, -1>>, <<42803, 42863, 2, -1>>,
    <<42874, 42876, 2, -1>>, <<42879, 42887, 2, -1>>,
    <<42892, 42892, 1, -1>>, <<42897, 42899, 2, -1>>,
    <<42900, 42900, 1, 48>>, <<42903, 42921, 2, -1>>,
    <<42933, 42947, 2, -1>>, <<42952, 42954, 2, -1>>,
    <<42961, 42961, 1, -1>>, <<42967, 42969, 2, -1>>,
    <<42998, 42998, 1, -1>>, <<43859, 43859, 1, -928>>,
    <<43888, 43967, 1, -38864>>, <<65345, 65370, 1, -32>>,
    <<66600, 66639, 1, -40>>, <<66776, 66811, 1, -40>>,
    <<66967, 67003, 2, -39>>, <<66968, 66976, 2, -39>>,
    <<66980, 66992, 2, -39>>, <<66996, 67000, 2, -39>>,
    <<67004, 67004, 1, -39>>, <<68800, 68850, 1, -64>>,
    <<71872, 71903, 1, -32>>, <<93792, 93823, 1, -32>>,
    <<125218, 125251, 1, -34>> }

\* Code points whose upper case is more than one code point.
UpperSpecial == {
    <<223, <<83, 83>>>>, <<329, <<700, 78>>>>, <<496, <<74, 780>>>>,
    <<912, <<921, 776, 769>>>>, <<944, <<933, 776, 769>>>>,
    <<1415, <<1333, 1362>>>>, <<7830, <<72, 817>>>>, <<7831, <<84, 776>>>>,
    <<7832, <<87, 778>>>>, <<7833, <<89, 778>>>>, <<7834, <<65, 702>>>>,
    <<8016, <<933, 787>>>>, <<8018, <<933, 787, 768>>>>,
    <<8020, <<933, 787, 769>>>>, <<8022, <<933, 787, 834>>>>,
    <<8064, <<7944, 921>>>>, <<8065, <<7945, 921>>>>,
    <<8066, <<7946, 921>>>>, <<8067, <<7947, 921>>>>,
    <<8068, <<7948, 921>>>>, <<8069, <<7949, 921>>>>,
    <<8070, <<7950, 921>>>>, <<8071, <<7951, 921>>>>,
    <<8072, <<7944, 921>>>>, <<8073, <<7945, 921>>>>,
    <<8074, <<7946, 921>>>>, <<8075, <<7947, 921>>>>,
    <<8076, <<7948, 921>>>>, <<8077, <<7949, 921>>>>,
    <<8078, <<7950, 921>>>>, <<8079, <<7951, 921>>>>,
    <<8080, <<7976, 921>>>>, <<8081, <<7977, 921>>>>,
    <<8082, <<7978, 921>>>>, <<8083, <<7979, 921>>>>,
    <<8084, <<7980, 921>>>>, <<8085, <<7981, 921>>>>,
    <<8086, <<7982, 921>>>>, <<8087, <<7983, 921>>>>,
    <<8088, <<7976, 921>>>>, <<8089, <<7977, 921>>>>,
    <<8090, <<7978, 921>>>>, <<8091, <<7979, 921>>>>,
    <<8092, <<7980, 921>>>>, <<8093, <<7981, 921>>>>,
    <<8094, <<7982, 921>>>>, <<8095, <<7983, 921>>>>,
    <<8096, <<8040, 921>>>>, <<8097, <<8041, 921>>>>,
    <<8098, <<8042, 921>>>>, <<8099, <<8043, 921>>>>,
    <<8100, <<8044, 921>>>>, <<8101, <<8045, 921>>>>,
    <<8102, <<8046, 921>>>>, <<8103, <<8047, 921>>>>,
    <<8104, <<8040, 921>>>>, <<8105, <<8041, 921>>>>,
    <<8106, <<8042, 921>>>>, <<8107, <<8043, 921>>>>,
    <<8108, <<8044, 921>>>>, <<8109, <<8045, 921>>>>,
    <<8110, <<8046, 921>>>>, <<8111, <<8047, 921>>>>,
    <<8114, <<8122, 921>>>>, <<8115, <<913, 921>>>>, <<8116, <<902, 921>>>>,
    <<8118, <<913, 834>>>>, <<8119, <<913, 834, 921>>>>,
    <<8124, <<913, 921>>>>, <<8130, <<8138, 921>>>>, <<8131, <<919, 921>>>>,
    <<8132, <<905, 921>>>>, <<8134, <<919, 834>>>>,
    <<8135, <<919, 834, 921>>>>, <<8140, <<919, 921>>>>,
    <<8146, <<921, 776, 768>>>>, <<8147, <<921, 776, 769>>>>,
    <<8150, <<921, 834>>>>, <<8151, <<921, 776, 834>>>>,
    <<8162, <<933, 776, 768>>>>, <<8163, <<933, 776, 769>>>>,
    <<8164, <<929, 787>>>>, <<8166, <<933, 834>>>>,
    <<8167, <<933, 776, 834>>>>, <<8178, <<8186, 921>>>>,
    <<8179, <<937, 921>>>>, <<8180, <<911, 921>>>>, <<8182, <<937, 834>>>>,
    <<8183, <<937, 834, 921>>>>, <<8188, <<937, 921>>>>,
    <<64256, <<70, 70>>>>, <<64257, <<70, 73>>>>, <<64258, <<70, 76>>>>,
    <<64259, <<70, 70, 73>>>>, <<64260, <<70, 70, 76>>>>,
    <<64261, <<83, 84>>>>, <<64262, <<83, 84>>>>, <<64275, <<1348, 1350>>>>,
    <<64276, <<1348, 1333>>>>, <<64277, <<1348, 1339>>>>,
    <<64278, <<1358, 1350>>>>, <<64279, <<1348, 1341>>>> }

\* Ranges <<first, last>> of the code points str.lower() skips around a
\* capital sigma (case-ignorable), and of the cased code points it does not
\* skip.
CaseIgnorable == {
    <<39, 39>>, <<46, 46>>, <<58, 58>>, <<94, 94>>, <<96, 96>>, <<168, 168>>,
    <<173, 173>>, <<175, 175>>, <<180, 180>>, <<183, 184>>, <<688, 879>>,
    <<884, 885>>, <<890, 890>>, <<900, 901>>, <<903, 903>>, <<1155, 1161>>,
    <<1369, 1369>>, <<1375, 1375>>, <<1425, 1469>>, <<1471, 1471>>,
    <<1473, 1474>>, <<1476, 1477>>, <<1479, 1479>>, <<1524, 1524>>,
    <<1536, 1541>>, <<1552, 1562>>, <<1564, 1564>>, <<1600, 1600>>,
    <<1611, 1631>>, <<1648, 1648>>, <<1750, 1757>>, <<1759, 1768>>,
    <<1770, 1773>>, <<1807, 1807>>, <<1809, 1809>>, <<1840, 1866>>,
    <<1958, 1968>>, <<2027, 2037>>, <<2042, 2042>>, <<2045, 2045>>,
    <<2070, 2093>>, <<2137, 2139>>, <<2184, 2184>>, <<2192, 2193>>,
    <<2200, 2207>>, <<2249, 2306>>, <<2362, 2362>>, <<2364, 2364>>,
    <<2369, 2376>>, <<2381, 2381>>, <<2385, 2391>>, <<2402, 2403>>,
    <<2417, 2417>>, <<2433, 2433>>, <<2492, 2492>>, <<2497, 2500>>,
    <<2509, 2509>>, <<2530, 2531>>, <<2558, 2558>>, <<2561, 2562>>,
    <<2620, 2620>>, <<2625, 2626>>, <<2631, 2632>>, <<2635, 2637>>,
    <<2641, 2641>>, <<2672, 2673>>, <<2677, 2677>>, <<2689, 2690>>,
    <<2748, 2748>>, <<2753, 2757>>, <<2759, 2760>>, <<2765, 2765>>,
    <<2786, 2787>>, <<2810, 2815>>, <<2817, 2817>>, <<2876, 2876>>,
    <<2879, 2879>>, <<2881, 2884>>, <<2893, 2893>>, <<2901, 2902>>,
    <<2914, 2915>>, <<2946, 2946>>, <<3008, 3008>>, <<3021, 3021>>,
    <<3072, 3072>>, <<3076, 3076>>, <<3132, 3132>>, <<3134, 3136>>,
    <<3142, 3144>>, <<3146, 3149>>, <<3157, 3158>>, <<3170, 3171>>,
    <<3201, 3201>>, <<3260, 3260>>, <<3263, 3263>>, <<3270, 3270>>,
    <<3276, 3277>>, <<3298, 3299>>, <<3328, 3329>>, <<3387, 3388>>,
    <<3393, 3396>>, <<3405, 3405>>, <<3426, 3427>>, <<3457, 3457>>,
    <<3530, 3530>>, <<3538, 3540>>, <<3542, 3542>>, <<3633, 3633>>,
    <<3636, 3642>>, <<3654, 3662>>, <<3761, 3761>>, <<3764, 3772>>,
    <<3782, 3782>>, <<3784, 3789>>, <<3864, 3865>>, <<3893, 3893>>,
    <<3895, 3895>>, <<3897, 3897>>, <<3953, 3966>>, <<3968, 3972>>,
    <<3974, 3975>>, <<3981, 3991>>, <<3993, 4028>>, <<4038, 4038>>,
    <<4141, 4144>>, <<4146, 4151>>, <<4153, 4154>>, <<4157, 4158>>,
    <<4184, 4185>>, <<4190, 4192>>, <<4209, 4212>>, <<4226, 4226>>,
    <<4229, 4230>>, <<4237, 4237>>, <<4253, 4253>>, <<4348, 4348>>,
    <<4957, 4959>>, <<5906, 5908>>, <<5938, 5939>>, <<5970, 5971>>,
    <<6002, 6003>>, <<6068, 6069>>, <<6071, 6077>>, <<6086, 6086>>,
    <<6089, 6099>>, <<6103, 6103>>, <<6109, 6109>>, <<6155, 6159>>,
    <<6211, 6211>>, <<6277, 6278>>, <<6313, 6313>>, <<6432, 6434>>,
    <<6439, 6440>>, <<6450, 6450>>, <<6457, 6459>>, <<6679, 6680>>,
    <<6683, 6683>>, <<6742, 6742>>, <<6744, 6750>>, <<6752, 6752>>,
    <<6754, 6754>>, <<6757, 6764>>, <<6771, 6780>>, <<6783, 6783>>,
    <<6823, 6823>>, <<6832, 6862>>, <<6912, 6915>>, <<6964, 6964>>,
    <<6966, 6970>>, <<6972, 6972>>, <<6978, 6978>>, <<7019, 7027>>,
    <<7040, 7041>>, <<7074, 7077>>, <<7080, 7081>>, <<7083, 7085>>,
    <<7142, 7142>>, <<7144, 7145>>, <<7149, 7149>>, <<7151, 7153>>,
    <<7212, 7219>>, <<7222, 7223>>, <<7288, 7293>>, <<7376, 7378>>,
    <<7380, 7392>>, <<7394, 7400>>, <<7405, 7405>>, <<7412, 7412>>,
    <<7416, 7417>>, <<7468, 7530>>, <<7544, 7544>>, <<7579, 7679>>,
    <<8125, 8125>>, <<8127, 8129>>, <<8141, 8143>>, <<8157, 8159>>,
    <<8173, 8175>>, <<8189, 8190>>, <<8203, 8207>>, <<8216, 8217>>,
    <<8228, 8228>>, <<8231, 8231>>, <<8234, 8238>>, <<8288, 8292>>,
    <<8294, 8303>>, <<8305, 8305>>, <<8319, 8319>>, <<8336, 8348>>,
    <<8400, 8432>>, <<11388, 11389>>, <<11503, 11505>>, <<11631, 11631>>,
    <<11647, 11647>>, <<11744, 11775>>, <<11823, 11823>>, <<12293, 12293>>,
    <<12330, 12333>>, <<12337, 12341>>, <<12347, 12347>>, <<12441, 12446>>,
    <<12540, 12542>>, <<40981, 40981>>, <<42232, 42237>>, <<42508, 42508>>,
    <<42607, 42610>>, <<42612, 42621>>, <<42623, 42623>>, <<42652, 42655>>,
    <<42736, 42737>>, <<42752, 42785>>, <<42864, 42864>>, <<42888, 42890>>,
    <<42994, 42996>>, <<43000, 43001>>, <<43010, 43010>>, <<43014, 43014>>,
    <<43019, 43019>>, <<43045, 43046>>, <<43052, 43052>>, <<43204, 43205>>,
    <<43232, 43249>>, <<43263, 43263>>, <<43302, 43309>>, <<43335, 43345>>,
    <<43392, 43394>>, <<43443, 43443>>, <<43446, 43449>>, <<43452, 43453>>,
    <<43471, 43471>>, <<43493, 43494>>, <<43561, 43566>>, <<43569, 43570>>,
    <<43573, 43574>>, <<43587, 43587>>, <<43596, 43596>>, <<43632, 43632>>,
    <<43644, 43644>>, <<43696, 43696>>, <<43698, 43700>>, <<43703, 43704>>,
    <<43710, 43711>>, <<43713, 43713>>, <<43741, 43741>>, <<43756, 43757>>,
    <<43763, 43764>>, <<43766, 43766>>, <<43867, 43871>>, <<43881, 43883>>,
    <<44005, 44005>>, <<44008, 44008>>, <<44013, 44013>>, <<64286, 64286>>,
    <<64434, 64450>>, <<65024, 65039>>, <<65043, 65043>>, <<65056, 65071>>,
    <<65106, 65106>>, <<65109, 65109>>, <<65279, 65279>>, <<65287, 65287>>,
    <<65294, 65294>>, <<65306, 65306>>, <<65342, 65342>>, <<65344, 65344>>,
    <<65392, 65392>>, <<65438, 65439>>, <<65507, 65507>>, <<65529, 65531>>,
    <<66045, 66045>>, <<66272, 66272>>, <<66422, 66426>>, <<67456, 67461>>,
    <<67463, 67504>>, <<67506, 67514>>, <<68097, 68099>>, <<68101, 68102>>,
    <<68108, 68111>>, <<68152, 68154>>, <<68159, 68159>>, <<68325, 68326>>,
    <<68900, 68903>>, <<69291, 69292>>, <<69446, 69456>>, <<69506, 69509>>,
    <<69633, 69633>>, <<69688, 69702>>, <<69744, 69744>>, <<69747, 69748>>,
    <<69759, 69761>>, <<69811, 69814>>, <<69817, 69818>>, <<69821, 69821>>,
    <<69826, 69826>>, <<69837, 69837>>, <<69888, 69890>>, <<69927, 69931>>,
    <<69933, 69940>>, <<70003, 70003>>, <<70016, 70017>>, <<70070, 70078>>,
    <<70089, 70092>>, <<70095, 70095>>, <<70191, 70193>>, <<70196, 70196>>,
    <<70198, 70199>>, <<70206, 70206>>, <<70367, 70367>>, <<70371, 70378>>,
    <<70400, 70401>>, <<70459, 70460>>, <<70464, 70464>>, <<70502, 70508>>,
    <<70512, 70516>>, <<70712, 70719>>, <<70722, 70724>>, <<70726, 70726>>,
    <<70750, 70750>>, <<70835, 70840>>, <<70842, 70842>>, <<70847, 70848>>,
    <<70850, 70851>>, <<71090, 71093>>, <<71100, 71101>>, <<71103, 71104>>,
    <<71132, 71133>>, <<71219, 71226>>, <<71229, 71229>>, <<71231, 71232>>,
    <<71339, 71339>>, <<71341, 71341>>, <<71344, 71349>>, <<71351, 71351>>,
    <<71453, 71455>>, <<71458, 71461>>, <<71463, 71467>>, <<71727, 71735>>,
    <<71737, 71738>>, <<71995, 71996>>, <<71998, 71998>>, <<72003, 72003>>,
    <<72148, 72151>>, <<72154, 72155>>, <<72160, 72160>>, <<72193, 72202>>,
    <<72243, 72248>>, <<72251, 72254>>, <<72263, 72263>>, <<72273, 72278>>,
    <<72281, 72283>>, <<72330, 72342>>, <<72344, 72345>>, <<72752, 72758>>,
    <<72760, 72765>>, <<72767, 72767>>, <<72850, 72871>>, <<72874, 72880>>,
    <<72882, 72883>>, <<72885, 72886>>, <<73009, 73014>>, <<73018, 73018>>,
    <<73020, 73021>>, <<73023, 73029>>, <<73031, 73031>>, <<73104, 73105>>,
    <<73109, 73109>>, <<73111, 73111>>, <<73459, 73460>>, <<78896, 78904>>,
    <<92912, 92916>>, <<92976, 92982>>, <<92992, 92995>>, <<94031, 94031>>,
    <<94095, 94111>>, <<94176, 94177>>, <<94179, 94180>>, <<110576, 110579>>,
    <<110581, 110587>>, <<110589, 110590>>, <<113821, 113822>>,
    <<113824, 113827>>, <<118528, 118573>>, <<118576, 118598>>,
    <<119143, 119145>>, <<119155, 119170>>, <<119173, 119179>>,
    <<119210, 119213>>, <<119362, 119364>>, <<121344, 121398>>,
    <<121403, 121452>>, <<121461, 121461>>, <<121476, 121476>>,
    <<121499, 121503>>, <<121505, 121519>>, <<122880, 122886>>,
    <<122888, 122904>>, <<122907, 122913>>, <<122915, 122916>>,
    <<122918, 122922>>, <<123184, 123197>>, <<123566, 123566>>,
    <<123628, 123631>>, <<125136, 125142>>, <<125252, 125259>>,
    <<127995, 127999>>, <<917505, 917505>>, <<917536, 917631>>,
    <<917760, 917999>> }

CasedLetters == {
    <<65, 90>>, <<97, 122>>, <<170, 170>>, <<181, 181>>, <<186, 186>>,
    <<192, 214>>, <<216, 246>>, <<248, 442>>, <<444, 447>>, <<452, 659>>,
    <<661, 687>>, <<880, 883>>, <<886, 887>>, <<891, 893>>, <<895, 895>>,
    <<902, 902>>, <<904, 906>>, <<908, 908>>, <<910, 929>>, <<931, 1013>>,
    <<1015, 1153>>, <<1162, 1327>>, <<1329, 1366>>, <<1376, 1416>>,
    <<4256, 4293>>, <<4295, 4295>>, <<4301, 4301>>, <<4304, 4346>>,
    <<4349, 4351>>, <<5024, 5109>>, <<5112, 5117>>, <<7296, 7304>>,
    <<7312, 7354>>, <<7357, 7359>>, <<7424, 7467>>, <<7531, 7543>>,
    <<7545, 7578>>, <<7680, 7957>>, <<7960, 7965>>, <<7968, 8005>>,
    <<8008, 8013>>, <<8016, 8023>>, <<8025, 8025>>, <<8027, 8027>>,
    <<8029, 8029>>, <<8031, 8061>>, <<8064, 8116>>, <<8118, 8124>>,
    <<8126, 8126>>, <<8130, 8132>>, <<8134, 8140>>, <<8144, 8147>>,
    <<8150, 8155>>, <<8160, 8172>>, <<8178, 8180>>, <<8182, 8188>>,
    <<8450, 8450>>, <<8455, 8455>>, <<8458, 8467>>, <<8469, 8469>>,
    <<8473, 8477>>, <<8484, 8484>>, <<8486, 8486>>, <<8488, 8488>>,
    <<8490, 8493>>, <<8495, 8500>>, <<8505, 8505>>, <<8508, 8511>>,
    <<8517, 8521>>, <<8526, 8526>>, <<8544, 8575>>, <<8579, 8580>>,
    <<9398, 9449>>, <<11264, 11387>>, <<11390, 11492>>, <<11499, 11502>>,
    <<11506, 11507>>, <<11520, 11557>>, <<11559, 11559>>, <<11565, 11565>>,
    <<42560, 42605>>, <<42624, 42651>>, <<42786, 42863>>, <<42865, 42887>>,
    <<42891, 42894>>, <<42896, 42954>>, <<42960, 42961>>, <<42963, 42963>>,
    <<42965, 42969>>, <<42997, 42998>>, <<43002, 43002>>, <<43824, 43866>>,
    <<43872, 43880>>, <<43888, 43967>>, <<64256, 64262>>, <<64275, 64279>>,
    <<65313, 65338>>, <<65345, 65370>>, <<66560, 66639>>, <<66736, 66771>>,
    <<66776, 66811>>, <<66928, 66938>>, <<66940, 66954>>, <<66956, 66962>>,
    <<66964, 66965>>, <<66967, 66977>>, <<66979, 66993>>, <<66995, 67001>>,
    <<67003, 67004>>, <<68736, 68786>>, <<68800, 68850>>, <<71840, 71903>>,
    <<93760, 93823>>, <<119808, 119892>>, <<119894, 119964>>,
    <<119966, 119967>>, <<119970, 119970>>, <<119973, 119974>>,
    <<119977, 119980>>, <<119982, 119993>>, <<119995, 119995>>,
    <<119997, 120003>>, <<120005, 120069>>, <<120071, 120074>>,
    <<120077, 120084>>, <<120086, 120092>>, <<120094, 120121>>,
    <<120123, 120126>>, <<120128, 120132>>, <<120134, 120134>>,
    <<120138, 120144>>, <<120146, 120485>>, <<120488, 120512>>,
    <<120514, 120538>>, <<120540, 120570>>, <<120572, 120596>>,
    <<120598, 120628>>, <<120630, 120654>>, <<120656, 120686>>,
    <<120688, 120712>>, <<120714, 120744>>, <<120746, 120770>>,
    <<120772, 120779>>, <<122624, 122633>>, <<122635, 122654>>,
    <<125184, 125251>>, <<127280, 127305>>, <<127312, 127337>>,
    <<127344, 127369>> }

InRanges(c, ranges) == \E r \in ranges : r[1] <= c /\ c <= r[2]

\* The code point a table of runs maps c to, c itself when no run holds it.
CaseMapped(c, runs) ==
    LET hit == {r \in runs : r[1] <= c /\ c <= r[2] /\ (c - r[1]) % r[3] = 0}
    IN  IF hit = {} THEN c ELSE c + (CHOOSE r \in hit : TRUE)[4]

\* The lower case of one code point outside any context: one code point,
\* or two for U+0130.
LowerChar(c) ==
    IF c < 128 THEN <<IF c \in 65..90 THEN c + 32 ELSE c>>
    ELSE IF c = 304 THEN <<105, 775>>
    ELSE <<CaseMapped(c, LowerRuns)>>

\* The upper case of one code point: up to three code points.
UpperChar(c) ==
    LET special == {r \in UpperSpecial : r[1] = c}
    IN  IF c < 128 THEN <<IF c \in 97..122 THEN c - 32 ELSE c>>
        ELSE IF special # {} THEN (CHOOSE r \in special : TRUE)[2]
        ELSE <<CaseMapped(c, UpperRuns)>>

\* Whether the capital sigma at index i of s is final: a cased letter before
\* it and none after it, case-ignorable code points skipped on both sides.
FinalSigma(s, i) ==
    LET before == {j \in 1..(i - 1) : ~InRanges(s[j], CaseIgnorable)}
        after  == {j \in (i + 1)..Len(s) : ~InRanges(s[j], CaseIgnorable)}
    IN  /\ before # {}
        /\ InRanges(s[Max(before)], CasedLetters)
        /\ after # {} => ~InRanges(s[Min(after)], CasedLetters)

\* str.lower() from index i on.
RECURSIVE LowerFrom(_, _)
LowerFrom(s, i) ==
    IF i > Len(s) THEN <<>>
    ELSE (IF s[i] = 931 THEN <<IF FinalSigma(s, i) THEN 962 ELSE 963>>
          ELSE LowerChar(s[i]))
         \o LowerFrom(s, i + 1)

\* str.lower(); ASCII text maps code point by code point.
Lower(s) ==
    IF \A i \in 1..Len(s) : s[i] < 128
    THEN [i \in 1..Len(s) |-> LowerChar(s[i])[1]]
    ELSE LowerFrom(s, 1)

\* str.upper() from index i on.
RECURSIVE UpperFrom(_, _)
UpperFrom(s, i) ==
    IF i > Len(s) THEN <<>> ELSE UpperChar(s[i]) \o UpperFrom(s, i + 1)

\* str.upper(); ASCII text maps code point by code point.
Upper(s) ==
    IF \A i \in 1..Len(s) : s[i] < 128
    THEN [i \in 1..Len(s) |-> UpperChar(s[i])[1]]
    ELSE UpperFrom(s, 1)

(***************************************************************************)
(* extract_lon_lat_from_wkt                                                *)
(***************************************************************************)
POINT == <<80, 79, 73, 78, 84>>

\* End of a match of the group [\-0-9]+(?:\.[0-9]+)? that starts at i, 0 if
\* the group does not match there.  Every piece is greedy, and what follows a
\* shorter match is a character of the group itself, never the whitespace or
\* parenthesis the pattern needs next, so backtracking finds nothing more.
NumberEnd(s, i) ==
    LET j == RunEnd(s, i, MinusDigits)
        k == RunEnd(s, j + 1, Digits)
    IN  IF j = i THEN 0
        ELSE IF j <= Len(s) /\ s[j] = 46 /\ k > j + 1 THEN k
        ELSE j

\* A match of POINT\s*\(\s*(num)\s+(num)\s*\) that starts at index i.
PointMatchAt(s, i) ==
    LET p1 == RunEnd(s, i + 5, Whitespace)
        p2 == RunEnd(s, p1 + 1, Whitespace)
        e1 == NumberEnd(s, p2)
        p3 == RunEnd(s, e1, Whitespace)
        e2 == NumberEnd(s, p3)
        p4 == RunEnd(s, e2, Whitespace)
        ok == /\ HasAt(s, i, POINT)
              /\ p1 <= Len(s) /\ s[p1] = 40
              /\ e1 # 0
              /\ p3 > e1
              /\ e2 # 0
              /\ p4 <= Len(s) /\ s[p4] = 41
    IN  IF ok THEN [ok |-> TRUE, g1 |-> SubSeq(s, p2, e1 - 1),
                    g2 |-> SubSeq(s, p3, e2 - 1)]
        ELSE [ok |-> FALSE, g1 |-> <<>>, g2 |-> <<>>]

\* re.search: the match at the leftmost index that has one.
RECURSIVE PointSearchFrom(_, _)
PointSearchFrom(s, i) ==
    IF i > Len(s) THEN [ok |-> FALSE, g1 |-> <<>>, g2 |-> <<>>]
    ELSE IF PointMatchAt(s, i).ok THEN PointMatchAt(s, i)
    ELSE PointSearchFrom(s, i + 1)

re_search_point(s) == PointSearchFrom(s, 1)

(***************************************************************************)
(* Natural numbers of any size, as float() needs them: limbs below Limb    *)
(* with the lowest first and no zero limb at the high end (<<>> is 0).     *)
(* Every operator works on all limbs at once, so that the length of a      *)
(* number costs no depth of recursion.                                     *)
(***************************************************************************)
Limb       == 10000000
LimbDigits == 7

BigTrim(a) ==
    LET used == {i \in 1..Len(a) : a[i] # 0 /\ \A j \in i + 1..Len(a) : a[j] = 0}
    IN  IF used = {} THEN <<>> ELSE SubSeq(a, 1, CHOOSE i \in used : TRUE)

\* The number the digit characters d[lo..hi] write.
RECURSIVE LimbValue(_, _, _)
LimbValue(d, lo, hi) ==
    IF lo > hi THEN 0 ELSE 10 * LimbValue(d, lo, hi - 1) + (d[hi] - 48)

\* The number a text of digit characters writes.
BigFromText(d) ==
    LET n == Len(d)
    IN  BigTrim([i \in 1..(n + LimbDigits - 1) \div LimbDigits |->
                    LimbValue(d, Max({1, n - LimbDigits * i + 1}),
                              n - LimbDigits * (i - 1))])

\* -1, 0 or 1 as a is below, equal to or above b.
BigCmp(a, b) ==
    IF Len(a) # Len(b) THEN (IF Len(a) < Len(b) THEN -1 ELSE 1)
    ELSE IF a = b THEN 0
    ELSE IF \E i \in 1..Len(a) : /\ a[i] < b[i]
                                 /\ \A j \in i + 1..Len(a) : a[j] = b[j]
    THEN -1 ELSE 1

\* a + b: the carry into limb i comes from the nearest lower limb whose sum
\* is not Limb - 1.
BigAdd(a, b) ==
    LET n    == Max({Len(a), Len(b)})
        sum  == [i \in 1..n + 1 |-> (IF i <= Len(a) THEN a[i] ELSE 0)
                                    + (IF i <= Len(b) THEN b[i] ELSE 0)]
        sums == SubSeq(sum, 1, n + 1)
        carry(i) == \E j \in 1..i - 1 :
                        /\ sums[j] >= Limb
                        /\ \A k \in j + 1..i - 1 : sums[k] = Limb - 1
    IN  BigTrim([i \in 1..n + 1 |->
                    (sums[i] + (IF carry(i) THEN 1 ELSE 0)) % Limb])

\* a - b for a >= b: the borrow from limb i is asked by the nearest lower
\* limb where a and b differ.
BigSub(a, b) ==
    LET diff  == [i \in 1..Len(a) |-> a[i] - (IF i <= Len(b) THEN b[i] ELSE 0)]
        diffs == SubSeq(diff, 1, Len(a))
        borrow(i) == \E j \in 1..i - 1 :
                         /\ diffs[j] < 0
                         /\ \A k \in j + 1..i - 1 : diffs[k] = 0
    IN  BigTrim([i \in 1..Len(a) |->
                    (diffs[i] - (IF borrow(i) THEN 1 ELSE 0) + Limb) % Limb])

\* a * k for a k that divides Limb (2, 4, ..., 128, 10, 100): what limb i
\* carries up is then a[i] * k \div Limb, whatever is carried into it.
BigMulSmall(a, k) ==
    BigTrim([i \in 1..Len(a) + 1 |->
                (IF i <= Len(a) THEN (a[i] * k) % Limb ELSE 0)
                + (IF i > 1 THEN (a[i - 1] * k) \div Limb ELSE 0)])

\* a * 2^n.
RECURSIVE BigShl(_, _)
BigShl(a, n) ==
    IF a = <<>> THEN <<>>
    ELSE IF n <= LimbDigits THEN BigMulSmall(a, 2^n)
    ELSE BigShl(BigShl(a, n \div 2), n - n \div 2)

RECURSIVE MulPow10Small(_, _)
MulPow10Small(a, n) ==
    IF n = 0 THEN a
    ELSE IF n = 1 THEN BigMulSmall(a, 10)
    ELSE MulPow10Small(BigMulSmall(a, 100), n - 2)

\* a * 10^n.
BigMulPow10(a, n) ==
    MulPow10Small(IF a = <<>> THEN <<>>
                  ELSE [i \in 1..n \div LimbDigits |-> 0] \o a,
                  n % LimbDigits)

Zeros(k) == [i \in 1..k |-> 48]

\* The quotient digit d and the remainder r of a by b, for a < 10 * b.
RECURSIVE DigitOf(_, _, _)
DigitOf(a, b, d) ==
    IF BigCmp(a, b) < 0 THEN [d |-> d, r |-> a]
    ELSE DigitOf(BigSub(a, b), b, d + 1)

\* The quotient q of a by b in n decimal digits, the highest first, for
\* a < 10 * b, and the remainder r: the first half of the digits, then the
\* other half from what the first leaves.
RECURSIVE DivFrom(_, _, _)
DivFrom(a, b, n) ==
    IF n = 1
    THEN LET step == DigitOf(a, b, 0)
         IN  [q |-> <<48 + step.d>>, r |-> step.r]
    ELSE LET first == DivFrom(a, b, n \div 2)
             rest  == DivFrom(BigMulSmall(first.r, 10), b, n - n \div 2)
         IN  [q |-> first.q \o rest.q, r |-> rest.r]

(***************************************************************************)
(* float(): the IEEE 754 double nearest to a decimal, ties to the even     *)
(* mantissa.  A finite double is mant * 2^exp with mant < 2^53 and exp in  *)
(* MinExp..MaxExp; below 2^52 the mantissa is subnormal and exp is MinExp. *)
(***************************************************************************)
MantBits   == 53
MantDigits == 16
MinExp     == -1074
MaxExp     == 971
\* A decimal of up to DblDig significant digits and its nearest double name
\* each other (DBL_DIG), while the double is normal: the model takes this
\* way between 10^-300 and 10^300.
DblDig     == 15
\* 0.d * 10^p is above every finite double from MaxDecPt on and below half
\* the least positive double up to MinDecPt.
MaxDecPt   == 310
MinDecPt   == -324

\* digs with its last digit raised by one, digs being decimal digits with
\* the highest first; a carry out of the front leaves 1 and moves the point.
RECURSIVE RoundUp(_)
RoundUp(digs) ==
    IF digs = <<>> THEN [digs |-> <<1>>, carry |-> 1]
    ELSE IF digs[Len(digs)] < 9
    THEN [digs  |-> SubSeq(digs, 1, Len(digs) - 1) \o <<digs[Len(digs)] + 1>>,
          carry |-> 0]
    ELSE RoundUp(SubSeq(digs, 1, Len(digs) - 1))

\* The digits with their last one, step.d or one more: low and high compare
\* what is left with the lower and the upper bound, mid with one half.
LastDigit(g, step, low, high, mid, even) ==
    LET below == low < 0 \/ (low = 0 /\ even)
        up    == IF high = 0 /\ even THEN low > 0
                 ELSE IF below
                 THEN /\ step.r # <<>> /\ high > 0
                      /\ mid > 0 \/ (mid = 0 /\ step.d % 2 = 1)
                 ELSE TRUE
    IN  IF up THEN RoundUp(g.digs \o <<step.d>>)
        ELSE [digs |-> g.digs \o <<step.d>>, carry |-> 0]

\* The digit step.d after those of g, with the bounds mp10 and mm10 that go
\* with it: the last one when what is left is within a bound, the bounds
\* themselves counting for an even mantissa.
BoundedDigit(g, s, even, step, mp10, mm10) ==
    LET low  == BigCmp(step.r, mm10)
        high == BigCmp(BigAdd(step.r, mp10), s)
        last == LastDigit(g, step, low, high,
                          BigCmp(BigMulSmall(step.r, 2), s), even)
    IN  IF low < 0 \/ high > 0 \/ ((low = 0 \/ high = 0) /\ even)
        THEN [r |-> step.r, mp |-> mp10, mm |-> mm10, digs |-> last.digs,
              carry |-> last.carry, done |-> TRUE]
        ELSE [r |-> step.r, mp |-> mp10, mm |-> mm10,
              digs |-> g.digs \o <<step.d>>, carry |-> 0, done |-> FALSE]

\* One more digit of r / s after digs, the highest first, mm and mp being
\* half the way to the double below and above.
GenerateDigit(g, s, even) ==
    BoundedDigit(g, s, even, DigitOf(BigMulSmall(g.r, 10), s, 0),
                 BigMulSmall(g.mp, 10), BigMulSmall(g.mm, 10))

\* Up to n more digits: the first half, then the other half unless done.
RECURSIVE Generate(_, _, _, _)
Generate(g, s, even, n) ==
    IF n = 1 THEN GenerateDigit(g, s, even)
    ELSE LET first == Generate(g, s, even, n \div 2)
         IN  IF first.done THEN first
             ELSE Generate(first, s, even, n - n \div 2)

\* The digit characters of the digits generated, and where the point is.
PlacedDigits(out, k) ==
    [sig   |-> RStrip([i \in 1..Len(out.digs) |-> 48 + out.digs[i]], {48}),
     decpt |-> k + out.carry]

\* The power of ten k with (r + mp) / s in [1/10, 1) after scaling, and the
\* digits generated from there, 17 at most: over tells whether r + mp
\* reaches s, under whether ten times r + mp stays under s.
RECURSIVE ScaleDecimal(_, _, _, _, _, _)
ScaleDecimal(r, s, mp, mm, even, k) ==
    LET over  == BigCmp(BigAdd(r, mp), s)
        under == BigCmp(BigMulSmall(BigAdd(r, mp), 10), s)
    IN  IF over > 0 \/ (over = 0 /\ even)
        THEN ScaleDecimal(r, BigMulSmall(s, 10), mp, mm, even, k + 1)
        ELSE IF under < 0 \/ (under = 0 /\ ~even)
        THEN ScaleDecimal(BigMulSmall(r, 10), s, BigMulSmall(mp, 10),
                          BigMulSmall(mm, 10), even, k - 1)
        ELSE PlacedDigits(Generate([r |-> r, mp |-> mp, mm |-> mm,
                                    digs |-> <<>>, carry |-> 0, done |-> FALSE],
                                   s, even, 17), k)

\* mant * 2^exp as r / s, with mm and mp over s half the way to the double
\* below and to the double above; s is unit, or unit * 2^(-exp).
DoubleBounds(mant, exp, unit, pow) ==
    [r  |-> BigMulSmall(IF exp >= 0 THEN BigShl(mant, exp) ELSE mant, unit),
     s  |-> IF exp >= 0 THEN <<unit>> ELSE BigMulSmall(pow, unit),
     mm |-> IF exp >= 0 THEN pow ELSE <<1>>,
     mp |-> BigMulSmall(IF exp >= 0 THEN pow ELSE <<1>>, unit \div 2)]

\* The digits from the bounds b, scaled by ten to the power k0 first.
ShortestFrom(b, even, k0, up) ==
    ScaleDecimal(BigMulPow10(b.r, up), BigMulPow10(b.s, IF k0 > 0 THEN k0 ELSE 0),
                 BigMulPow10(b.mp, up), BigMulPow10(b.mm, up), even, k0)

\* The shortest decimal 0.sig * 10^decpt that reads back as mant * 2^exp,
\* the search for decpt starting from k0.  The double below a power of two
\* is half as far as the one above.
ShortestDigits(mant, exp, k0) ==
    ShortestFrom(DoubleBounds(mant, exp,
                              IF mant = BigShl(<<1>>, MantBits - 1) /\ exp > MinExp
                              THEN 4 ELSE 2,
                              BigShl(<<1>>, IF exp >= 0 THEN exp ELSE 0 - exp)),
                 mant[1] % 2 = 0, k0, IF k0 < 0 THEN 0 - k0 ELSE 0)

\* The mantissa after rounding, which may have reached 2^53.
RoundedDouble(mant, exp) ==
    IF mant = BigShl(<<1>>, MantBits)
    THEN [inf |-> exp + 1 > MaxExp, mant |-> BigShl(<<1>>, MantBits - 1),
          exp |-> exp + 1]
    ELSE [inf |-> FALSE, mant |-> mant, exp |-> exp]

\* The quotient rounded to the nearest mantissa, to the even one from half
\* way; half compares twice the remainder with the divisor.
RoundQuotient(qr, half, exp) ==
    IF half > 0 \/ (half = 0 /\ qr.q[MantDigits] % 2 = 1)
    THEN RoundedDouble(BigAdd(BigFromText(qr.q), <<1>>), exp)
    ELSE [inf |-> FALSE, mant |-> BigFromText(qr.q), exp |-> exp]

\* a / b below 2^53 divided and rounded: the mantissa and the exponent, or
\* inf beyond the greatest exponent.
DivideScaled(sc, top) ==
    IF sc.exp > MaxExp THEN [inf |-> TRUE, mant |-> <<>>, exp |-> sc.exp]
    ELSE LET qr == DivFrom(sc.a, top, MantDigits)
         IN  RoundQuotient(qr, BigCmp(BigMulSmall(qr.r, 2), top), sc.exp)

\* b doubled until a / b is below 2^53.
RECURSIVE ScaleBinary(_, _, _)
ScaleBinary(a, b, exp) ==
    IF BigCmp(a, BigShl(b, MantBits)) >= 0 /\ exp <= MaxExp
    THEN ScaleBinary(a, BigMulSmall(b, 2), exp + 1)
    ELSE DivideScaled([a |-> a, b |-> b, exp |-> exp],
                      BigMulPow10(b, MantDigits - 1))

\* The double nearest to n / 10^e for n > 0 with n / 10^e in
\* [10^(decpt - 1), 10^decpt): its mantissa and exponent, or inf when the
\* value is out of range.  The exponent starts from under the binary
\* logarithm of 10^(decpt - 1), or from MinExp, n or 10^e taking the power
\* of two.
NearestDouble(n, e, decpt) ==
    LET exp0 == Max({MinExp, ((decpt - 1) * 3321) \div 1000 - MantBits - 1})
    IN  ScaleBinary(IF exp0 < 0 THEN BigShl(n, 0 - exp0) ELSE n,
                    IF exp0 > 0 THEN BigShl(BigMulPow10(<<1>>, e), exp0)
                    ELSE BigMulPow10(<<1>>, e),
                    exp0)

\* The float of a mantissa and an exponent.
DoubleOf(neg, near, decpt) ==
    IF near.inf THEN PyInf(neg)
    ELSE IF near.mant = <<>> THEN PyFloat(neg, <<>>, 0)
    ELSE LET short == ShortestDigits(near.mant, near.exp, decpt)
         IN  PyFloat(neg, short.sig, short.decpt)

\* The float of 0.lead * 10^decpt for digits lead that start with no zero,
\* sig being lead without the zeros at its end and e the digits of lead
\* that the token has after the point.
FloatOf(neg, lead, sig, e, decpt) ==
    IF lead = <<>> \/ decpt <= MinDecPt THEN PyFloat(neg, <<>>, 0)
    ELSE IF decpt >= MaxDecPt THEN PyInf(neg)
    ELSE IF Len(sig) <= DblDig /\ decpt > -300 /\ decpt < 300
    THEN PyFloat(neg, sig, decpt)
    ELSE DoubleOf(neg, NearestDouble(BigFromText(lead), e, decpt), decpt)

\* float(tok) for a token over the classes [\-0-9] and ".": a ValueError
\* (ok = FALSE) unless tok is an optional minus sign, digits, and an optional
\* point with digits, holding at least one digit.  The value is the double
\* nearest to the decimal the token writes.
float(tok) ==
    LET neg   == tok # <<>> /\ tok[1] = 45
        body  == IF neg THEN Tail(tok) ELSE tok
        j     == RunEnd(body, 1, Digits)
        int   == SubSeq(body, 1, j - 1)
        frac  == SubSeq(body, j + 1, Len(body))
        good  == /\ \/ j = Len(body) + 1
                    \/ /\ body[j] = 46
                       /\ \A x \in 1..Len(frac) : frac[x] \in Digits
                 /\ Len(int) + Len(frac) > 0
        lead  == LStrip(int \o frac, {48})
    IN  IF good
        THEN [ok |-> TRUE,
              val |-> FloatOf(neg, lead, RStrip(lead, {48}), Len(frac),
                              Len(lead) - Len(frac))]
        ELSE [ok |-> FALSE, val |-> PyNone]

\* The decimal digits of a natural number.
RECURSIVE DigitsOf(_)
DigitsOf(n) ==
    IF n < 10 THEN <<48 + n>> ELSE Append(DigitsOf(n \div 10), 48 + (n % 10))

Nan == <<110, 97, 110>>      \* "nan"
Inf == <<105, 110, 102>>     \* "inf"

\* str(x) of a float: the shortest decimal that reads back as x, written
\* with a point between 1e-4 and 1e16 and with an exponent outside.
float_repr(x) ==
    LET sig   == x.sig
        decpt == x.decpt
        n     == Len(sig)
        exp10 == decpt - 1
        expd  == DigitsOf(IF exp10 < 0 THEN 0 - exp10 ELSE exp10)
        body  == IF x.inf THEN Inf
                 ELSE IF sig = <<>> THEN <<48, 46, 48>>
                 ELSE IF decpt > 16 \/ decpt < -3
                 THEN <<sig[1]>>
                      \o (IF n > 1 THEN <<46>> \o SubSeq(sig, 2, n) ELSE <<>>)
                      \o <<101, IF exp10 < 0 THEN 45 ELSE 43>>
                      \o (IF Len(expd) < 2 THEN <<48>> ELSE <<>>) \o expd
                 ELSE IF decpt <= 0 THEN <<48, 46>> \o Zeros(0 - decpt) \o sig
                 ELSE IF decpt >= n THEN sig \o Zeros(decpt - n) \o <<46, 48>>
                 ELSE SubSeq(sig, 1, decpt) \o <<46>> \o SubSeq(sig, decpt + 1, n)
    IN  IF x.nan THEN Nan ELSE (IF x.neg THEN <<45>> ELSE <<>>) \o body

\* What a call leaves behind: a returned value, or an exception that escaped.
Returned(x) == [done |-> TRUE, raised |-> FALSE, val |-> x]
Raised      == [done |-> TRUE, raised |-> TRUE, val |-> <<>>]
NotCalled   == [done |-> FALSE, raised |-> FALSE, val |-> <<>>]

NonePair == [lat |-> PyNone, lon |-> PyNone]

\* A variant that returns the pair in the order of the text, (lon, lat).
extract_unswapped(wkt_str) ==
    IF ~IsStr(wkt_str) THEN Returned(NonePair)
    ELSE LET s == StripChars(StripChars(StripChars(wkt_str.v, Whitespace), {34}), {39})
             m == re_search_point(s)
         IN  IF ~m.ok THEN Returned(NonePair)
             ELSE IF float(m.g1).ok /\ float(m.g2).ok
                  THEN Returned([lat |-> float(m.g1).val, lon |-> float(m.g2).val])
                  ELSE Returned(NonePair)

\* A variant without the try/except around the two float() calls.
extract_unguarded(wkt_str) ==
    IF ~IsStr(wkt_str) THEN Returned(NonePair)
    ELSE LET s == StripChars(StripChars(StripChars(wkt_str.v, Whitespace), {34}), {39})
             m == re_search_point(s)
         IN  IF ~m.ok THEN Returned(NonePair)
             ELSE IF float(m.g1).ok /\ float(m.g2).ok
                  THEN Returned([lat |-> float(m.g2).val, lon |-> float(m.g1).val])
                  ELSE Raised

extract_lon_lat_from_wkt(wkt_str) ==
    IF ~IsStr(wkt_str) THEN Returned(NonePair)
    ELSE LET s == StripChars(StripChars(StripChars(wkt_str.v, Whitespace), {34}), {39})
             m == re_search_point(s)
         IN  IF ~m.ok THEN Returned(NonePair)
             ELSE IF float(m.g1).ok /\ float(m.g2).ok
                  THEN Returned([lat |-> float(m.g2).val, lon |-> float(m.g1).val])
                  ELSE Returned(NonePair)

(***************************************************************************)
(* fix_mojibake_text                                                       *)
(***************************************************************************)
\* str.encode('latin-1'): the code points as bytes, a UnicodeEncodeError
\* (ok = FALSE) when one is above 255.
encode_latin1(s) ==
    IF \A i \in 1..Len(s) : s[i] <= 255
    THEN [ok |-> TRUE, bytes |-> s]
    ELSE [ok |-> FALSE, bytes |-> <<>>]

IsCont(b) == b \in 128..191

\* Length of the UTF-8 sequence that byte b at index i of bs leads, 0 when b
\* leads none or its continuation bytes are missing, out of range, overlong
\* or a surrogate.
Utf8SeqLen(bs, i) ==
    LET b  == bs[i]
        c1 == bs[i + 1]
        n  == Len(bs)
    IN  IF b <= 127 THEN 1
        ELSE IF b \in 194..223
             THEN IF i + 1 <= n /\ IsCont(c1) THEN 2 ELSE 0
        ELSE IF b \in 224..239
             THEN IF /\ i + 2 <= n
                     /\ IsCont(c1) /\ IsCont(bs[i + 2])
                     /\ (b = 224 => c1 >= 160)
                     /\ (b = 237 => c1 <= 159)
                  THEN 3 ELSE 0
        ELSE IF b \in 240..244
             THEN IF /\ i + 3 <= n
                     /\ IsCont(c1) /\ IsCont(bs[i + 2]) /\ IsCont(bs[i + 3])
                     /\ (b = 240 => c1 >= 144)
                     /\ (b = 244 => c1 <= 143)
                  THEN 4 ELSE 0
        ELSE 0

\* The code point of the UTF-8 sequence of length k at index i of bs.
Utf8CodePoint(bs, i, k) ==
    IF k = 1 THEN bs[i]
    ELSE IF k = 2 THEN (bs[i] - 192) * 64 + (bs[i + 1] - 128)
    ELSE IF k = 3
         THEN (bs[i] - 224) * 4096 + (bs[i + 1] - 128) * 64 + (bs[i + 2] - 128)
    ELSE (bs[i] - 240) * 262144 + (bs[i + 1] - 128) * 4096
         + (bs[i + 2] - 128) * 64 + (bs[i + 3] - 128)

\* bytes.decode('utf-8') from index i on: a UnicodeDecodeError (ok = FALSE)
\* at the first invalid sequence.
RECURSIVE DecodeFrom(_, _)
DecodeFrom(bs, i) ==
    IF i > Len(bs) THEN [ok |-> TRUE, text |-> <<>>]
    ELSE LET k    == Utf8SeqLen(bs, i)
             rest == DecodeFrom(bs, i + k)
         IN  IF k = 0 \/ ~rest.ok THEN [ok |-> FALSE, text |-> <<>>]
             ELSE [ok |-> TRUE, text |-> <<Utf8CodePoint(bs, i, k)>> \o rest.text]

decode_utf8(bs) == DecodeFrom(bs, 1)

\* 'Ã' in s or 'Â' in s
HasTelltale(s) == \E i \in 1..Len(s) : s[i] \in {195, 194}

\* A variant that attempts the round trip on every text, telltale or not.
fix_mojibake_unchecked(s) ==
    IF ~IsStr(s) THEN Returned(s)
    ELSE LET e == encode_latin1(s.v)
         IN  IF e.ok /\ decode_utf8(e.bytes).ok
             THEN Returned(PyStr(decode_utf8(e.bytes).text))
             ELSE Returned(s)

fix_mojibake_text(s) ==
    IF ~IsStr(s) THEN Returned(s)
    ELSE IF HasTelltale(s.v)
         THEN LET e == encode_latin1(s.v)
              IN  IF e.ok /\ decode_utf8(e.bytes).ok
                  THEN Returned(PyStr(decode_utf8(e.bytes).text))
                  ELSE Returned(s)
         ELSE Returned(s)

(***************************************************************************)
(* split_standard_description                                              *)
(***************************************************************************)
X         == <<120>>              \* "x"
Separator == <<32, 45, 32>>       \* " - "
FiveX     == <<X, X, X, X, X>>

\* re.sub(r'\s*[-–—]\s*', ' - ', s) from index i on.  A match starts at i
\* when the whitespace run from i ends at a dash; it then takes the
\* whitespace after the dash too.
RECURSIVE SubDashFrom(_, _)
SubDashFrom(s, i) ==
    IF i > Len(s) THEN <<>>
    ELSE LET j == RunEnd(s, i, Whitespace)
         IN  IF j <= Len(s) /\ s[j] \in Dashes
             THEN Separator \o SubDashFrom(s, RunEnd(s, j + 1, Whitespace))
             ELSE <<s[i]>> \o SubDashFrom(s, i + 1)

re_sub_dash(s) == SubDashFrom(s, 1)

\* str.split(sep)
RECURSIVE Split(_, _)
Split(s, sep) ==
    LET k == Find(s, 1, sep)
    IN  IF k = 0 THEN <<s>>
        ELSE <<SubSeq(s, 1, k - 1)>> \o Split(SubSeq(s, k + Len(sep), Len(s)), sep)

\* sep.join(parts)
RECURSIVE Join(_, _)
Join(parts, sep) ==
    IF parts = <<>> THEN <<>>
    ELSE IF Len(parts) = 1 THEN parts[1]
    ELSE parts[1] \o sep \o Join(Tail(parts), sep)

\* while len(parts) < 5: parts.append('x')
RECURSIVE PadFive(_)
PadFive(parts) ==
    IF Len(parts) < 5 THEN PadFive(Append(parts, X)) ELSE parts

\* [p.strip() for p in desc_norm.split(' - ')]
StrippedParts(desc_norm) ==
    LET raw == Split(desc_norm, Separator)
    IN  [i \in 1..Len(raw) |-> StripChars(raw[i], Whitespace)]

\* A variant without the branch that folds the parts past the fourth.
split_unfolded(desc) ==
    IF ~IsStr(desc) \/ StripChars(desc.v, Whitespace) = <<>> THEN Returned(FiveX)
    ELSE LET fixed == fix_mojibake_text(desc).val.v
             parts == StrippedParts(re_sub_dash(StripChars(fixed, Whitespace)))
         IN  Returned(PadFive(parts))

\* A variant that cuts the list to five parts and drops the rest.
split_truncated(desc) ==
    IF ~IsStr(desc) \/ StripChars(desc.v, Whitespace) = <<>> THEN Returned(FiveX)
    ELSE LET fixed == fix_mojibake_text(desc).val.v
             parts == StrippedParts(re_sub_dash(StripChars(fixed, Whitespace)))
         IN  Returned(PadFive(IF Len(parts) > 5 THEN SubSeq(parts, 1, 5) ELSE parts))

split_standard_description(desc) ==
    IF ~IsStr(desc) \/ StripChars(desc.v, Whitespace) = <<>> THEN Returned(FiveX)
    ELSE LET fixed == fix_mojibake_text(desc).val.v
             parts == StrippedParts(re_sub_dash(StripChars(fixed, Whitespace)))
             fold  == IF Len(parts) > 5
                      THEN SubSeq(parts, 1, 4)
                           \o <<Join(SubSeq(parts, 5, Len(parts)), Separator)>>
                      ELSE parts
         IN  Returned(PadFive(fold))

(***************************************************************************)
(* The inputs the utilities are called on.                                 *)
(***************************************************************************)
\* All texts over chars of length 0..n.
TextsUpTo(chars, n) == UNION {[1..k -> chars] : k \in 0..n}

\* Coordinate tokens: every text over "-", "." and "1".
Tokens == TextsUpTo({45, 46, 49}, MaxTok)

\* The shapes a geometry text is drawn in, for tokens a and b:
\*   plain   POINT (a b)
\*   quoted  "POINT(a  b )"
\*   padded  _'POINT ( a b)'\n
\*   wide    POINT<U+2003>(a<U+3000>b<U+2028>)
\*   glued   POINT (ab)
WktForms == {"plain", "quoted", "padded", "wide", "glued"}
BuildWkt(form, a, b) ==
    CASE form = "plain"  -> POINT \o <<32, 40>> \o a \o <<32>> \o b \o <<41>>
      [] form = "quoted" -> <<34>> \o POINT \o <<40>> \o a \o <<32, 32>> \o b
                            \o <<32, 41, 34>>
      [] form = "padded" -> <<32, 39>> \o POINT \o <<32, 40, 32>> \o a \o <<32>>
                            \o b \o <<41, 39, 10>>
      [] form = "wide"   -> POINT \o <<8195, 40>> \o a \o <<12288>> \o b
                            \o <<8232, 41>>
      [] form = "glued"  -> POINT \o <<32, 40>> \o a \o b \o <<41>>

Lon7703 == <<45, 55, 55, 46, 48, 51>>       \* "-77.03"
Lat1205 == <<45, 49, 50, 46, 48, 53>>       \* "-12.05"
\* Coordinates written with more digits than a float holds:
\* "-77.042817912345678" and "-12.0464000000000000001".
LonLong ==
    <<45, 55, 55, 46, 48, 52, 50, 56, 49, 55, 57, 49, 50, 51, 52, 53, 54, 55, 56>>
LatLong ==
    <<45, 49, 50, 46, 48, 52, 54, 52, 48, 48, 48, 48, 48, 48, 48, 48, 48, 48, 48,
      48, 48, 48, 49>>
EmptyText    == <<>>
PointEmpty   == POINT \o <<40, 41>>         \* "POINT()"
\* "LINESTRING (0 0, 1 1)"
LineString   == <<76, 73, 78, 69, 83, 84, 82, 73, 78, 71, 32, 40, 48, 32, 48,
                  44, 32, 49, 32, 49, 41>>
\* "1-2"
OneMinusTwo  == <<49, 45, 50>>

ExtractCall(arg, form, a, b) ==
    [fn |-> "extract", arg |-> arg, form |-> form, lon |-> a, lat |-> b]

ExtractCalls ==
    {ExtractCall(PyStr(BuildWkt(f, a, b)), f, a, b) :
        f \in WktForms, a \in Tokens, b \in Tokens}
    \cup {ExtractCall(PyStr(BuildWkt(f, Lon7703, Lat1205)), f, Lon7703, Lat1205) :
        f \in WktForms}
    \cup {ExtractCall(PyStr(BuildWkt(f, LonLong, LatLong)), f, LonLong, LatLong) :
        f \in WktForms}
    \cup {ExtractCall(PyStr(BuildWkt("plain", OneMinusTwo, <<49>>)), "plain",
                      OneMinusTwo, <<49>>)}
    \cup {ExtractCall(PyStr(t), "malformed", <<>>, <<>>) :
        t \in {EmptyText, PointEmpty, LineString}}
    \cup {ExtractCall(x, "nonstr", <<>>, <<>>) : x \in {PyNone, PyNaN}}

TextCall(fn, arg) ==
    [fn |-> fn, arg |-> arg, form |-> "text", lon |-> <<>>, lat |-> <<>>]

\* "descripciÃ³n" and what it repairs to.
DescripcionMojibake == <<100, 101, 115, 99, 114, 105, 112, 99, 105, 195, 179, 110>>
Descripcion         == <<100, 101, 115, 99, 114, 105, 112, 99, 105, 243, 110>>
\* The mojibake of an en dash, "â\x80\x93", alone and after "Ã³".
EnDashMojibake      == <<226, 128, 147>>
\* The mojibake of an em space and a no-break space, "â\x80\x83Â\xa0".
SpacesMojibake      == <<226, 128, 131, 194, 160>>

FixTexts ==
    TextsUpTo({110, 194, 195, 179, 160, 8211}, MaxText)
    \cup {DescripcionMojibake, Descripcion, EnDashMojibake,
          <<195, 179>> \o EnDashMojibake, SpacesMojibake}

FixCalls ==
    {TextCall("fix", PyStr(t)) : t \in FixTexts}
    \cup {TextCall("fix", x) : x \in {PyNone, PyNaN}}

\* A description of k segments: segment i is empty or the i-th letter, and
\* the separator after it is " - " or a bare en dash.
DescSeparators == {Separator, <<8211>>}
RECURSIVE BuildDesc(_, _, _)
BuildDesc(k, filled, seps) ==
    LET seg == IF filled[k] THEN <<64 + k>> ELSE <<>>
    IN  IF k = 1 THEN seg
        ELSE BuildDesc(k - 1, filled, seps) \o seps[k - 1] \o seg

DescTexts ==
    UNION {{BuildDesc(k, f, g) : f \in [1..k -> BOOLEAN],
                                 g \in [1..(k - 1) -> DescSeparators]} :
           k \in 1..MaxSegs}
    \cup { <<32>>, <<32, 9>>,                      \* whitespace only
           <<65, 45, 66>>,                         \* "A-B"
           <<32, 65, 32, 8212, 9, 66, 32>>,        \* " A —\tB "
           <<65, 45, 45, 66>>,                     \* "A--B"
           <<195, 179, 32, 45, 32, 66>>,           \* "Ã³ - B"
           <<194, 160>>,                           \* "Â" + no-break space
           SpacesMojibake,
           <<8195, 65, 8195, 45, 12288, 66, 8232>>, \* A - B around wide spaces
           <<65, 226, 128, 131, 45, 226, 128, 131, 66, 195, 179>>,
           <<65, 32, 45, 32, 66, 32, 45, 32, 67, 32, 45, 32, 68, 32, 45, 32,
             69, 32, 45, 32, 70, 32, 45, 32, 71>> } \* "A - B - C - D - E - F - G"

SplitCalls ==
    {TextCall("split", PyStr(t)) : t \in DescTexts}
    \cup {TextCall("split", x) : x \in {PyNone, PyNaN}}

(***************************************************************************)
(* SpecFn: each utility called once on an input drawn from the sets above. *)
(***************************************************************************)
ConvIdle ==
    /\ in_columns = <<>> /\ in_rows = <<>>
    /\ columns = <<>> /\ df = <<>> /\ cols_lower = <<>>
    /\ pc = "idle"
    /\ wkt_col = 0 /\ nombre_col = 0 /\ descr_col = 0
    /\ final = <<>> /\ out_file = [created |-> FALSE, rows |-> <<>>]
    /\ nan_as_text = TRUE

AppIdle ==
    /\ zonas_sel = {} /\ boticas_sel = {}
    /\ filtrar_boticas = FALSE /\ boticas_filtradas = {} /\ df_filtrado = {}
    /\ button_pressed = FALSE

InitFn ==
    /\ call \in ExtractCalls \cup FixCalls \cup SplitCalls
    /\ ret = NotCalled
    /\ ConvIdle
    /\ AppIdle

CallExtract ==
    /\ call.fn = "extract" /\ ~ret.done
    /\ ret' = extract_lon_lat_from_wkt(call.arg)
    /\ UNCHANGED <<call, convVars, appVars>>

CallFix ==
    /\ call.fn = "fix" /\ ~ret.done
    /\ ret' = fix_mojibake_text(call.arg)
    /\ UNCHANGED <<call, convVars, appVars>>

CallSplit ==
    /\ call.fn = "split" /\ ~ret.done
    /\ ret' = split_standard_description(call.arg)
    /\ UNCHANGED <<call, convVars, appVars>>

NextFn == CallExtract \/ CallFix \/ CallSplit

SpecFn == InitFn /\ [][NextFn]_vars

(***************************************************************************)
(* Claims about the utilities, checked under SpecFn.                       *)
(***************************************************************************)
\* Indices of tok that hold a decimal point.
DotsOf(tok) == {i \in 1..Len(tok) : tok[i] = 46}

\* tok is written as the pattern's number: characters of [\-0-9], then at
\* most one fraction "." digits.
IsPatternNumber(tok) ==
    /\ tok # <<>>
    /\ \A i \in 1..Len(tok) : tok[i] \in MinusDigits \cup {46}
    /\ Cardinality(DotsOf(tok)) <= 1
    /\ \A d \in DotsOf(tok) :
          /\ 1 < d /\ d < Len(tok)
          /\ \A i \in (d + 1)..Len(tok) : tok[i] \in Digits

\* tok denotes a real number: a minus sign at most in front, and a digit.
IsReal(tok) ==
    /\ \A i \in 2..Len(tok) : tok[i] # 45
    /\ \E i \in 1..Len(tok) : tok[i] \in Digits

\* The call drew a geometry text whose two numbers are separated.
SeparatedPoint ==
    call.fn = "extract" /\ call.form \in {"plain", "quoted", "padded", "wide"}

ValidPoint ==
    /\ SeparatedPoint
    /\ IsPatternNumber(call.lon) /\ IsReal(call.lon)
    /\ IsPatternNumber(call.lat) /\ IsReal(call.lat)

\* C1: for every valid POINT (lon lat) text with numeric lon and lat, also
\* wrapped in quotes or whitespace, extract_lon_lat_from_wkt returns the pair
\* swapped: the second number of the text first (lat), the first second (lon).
C1_SwappedPair ==
    (ValidPoint /\ ret.done) =>
        /\ ~ret.raised
        /\ ret.val.lat = float(call.lat).val
        /\ ret.val.lon = float(call.lon).val

\* POINT (-77.03 -12.05) has returned (-12.05, -77.03).
C1_Witness ==
    /\ call.fn = "extract" /\ call.form = "plain"
    /\ call.lon = Lon7703 /\ call.lat = Lat1205
    /\ ret.done
    /\ ret.val = [lat |-> PyFloat(TRUE, <<49, 50, 48, 53>>, 2),
                  lon |-> PyFloat(TRUE, <<55, 55, 48, 51>>, 2)]

\* C2: extract_lon_lat_from_wkt never raises; it returns two numbers or
\* (None, None), never one coordinate without the other; and it returns
\* (None, None) for a non-string, for "", "POINT()" and a LINESTRING, for a
\* text that does not match the pattern and for a token that is no real
\* number, such as "1-2".
C2_AbsentNeverRaises ==
    (call.fn = "extract" /\ ret.done) =>
        /\ ~ret.raised
        /\ \/ ret.val = NonePair
           \/ ret.val.lat.t = "float" /\ ret.val.lon.t = "float"
        /\ ~IsStr(call.arg) => ret.val = NonePair
        /\ call.form \in {"malformed", "glued"} => ret.val = NonePair
        /\ (SeparatedPoint /\ ~ValidPoint) => ret.val = NonePair

\* POINT (1-2 1) matched the pattern, float("1-2") failed, and the call
\* returned (None, None).
C2_Witness ==
    /\ call.fn = "extract" /\ call.lon = OneMinusTwo
    /\ IsPatternNumber(call.lon) /\ ~IsReal(call.lon)
    /\ ret.done /\ ~ret.raised /\ ret.val = NonePair

\* C4: split_standard_description returns exactly five fields for every
\* input: a non-string, an empty or whitespace-only text, a text with any
\* number of dashes.
C4_FiveFields ==
    (call.fn = "split" /\ ret.done) => (~ret.raised /\ Len(ret.val) = 5)

\* A description of more than five segments came back as five fields.
C4_Witness ==
    /\ call.fn = "split" /\ IsStr(call.arg)
    /\ Cardinality({i \in 1..Len(call.arg.v) : call.arg.v[i] \in Dashes}) > 4
    /\ ret.done /\ Len(ret.val) = 5

\* The segments of a description: the text between its dashes (hyphen, en
\* dash, em dash), each without the whitespace around it.
RECURSIVE DashSegments(_)
DashSegments(s) ==
    LET at == {i \in 1..Len(s) : s[i] \in Dashes}
        k  == CHOOSE i \in at : \A j \in at : i <= j
    IN  IF at = {} THEN <<StripChars(s, Whitespace)>>
        ELSE <<StripChars(SubSeq(s, 1, k - 1), Whitespace)>>
             \o DashSegments(SubSeq(s, k + 1, Len(s)))

\* What the claim expects of n segments: padded with "x" below five, the
\* five themselves, or the first four and the rest rejoined with " - ".
ExpectedFields(segs) ==
    LET n == Len(segs)
    IN  IF n < 5 THEN segs \o [i \in 1..(5 - n) |-> X]
        ELSE IF n = 5 THEN segs
        ELSE SubSeq(segs, 1, 4) \o <<Join(SubSeq(segs, 5, n), Separator)>>

SplitAgreesWithSegments ==
    ret.val = ExpectedFields(DashSegments(fix_mojibake_text(call.arg).val.v))

\* C5 as stated: every non-empty description gives its n segments padded
\* with "x" (n < 5), the five segments (n = 5), or segments 1-4 and segments
\* 5..n rejoined with " - " (n > 5).
C5_AsStated ==
    (call.fn = "split" /\ ret.done /\ IsStr(call.arg) /\ call.arg.v # <<>>)
        => SplitAgreesWithSegments

\* C5 as amended: the same, for every description that is not empty after
\* trimming whitespace; a whitespace-only description gives five "x",
\* not its one empty segment and four "x".
C5_NonBlankSegments ==
    (call.fn = "split" /\ ret.done /\ IsStr(call.arg))
        => IF StripChars(call.arg.v, Whitespace) # <<>>
           THEN SplitAgreesWithSegments
           ELSE ret.val = FiveX

\* "A - B - C - D - E - F - G" gave A, B, C, D and "E - F - G".
C5_Witness ==
    /\ call.fn = "split" /\ ret.done
    /\ Len(DashSegments(call.arg.v)) = 7
    /\ ret.val = <<<<65>>, <<66>>, <<67>>, <<68>>,
                   <<69, 32, 45, 32, 70, 32, 45, 32, 71>>>>

\* The UTF-8 bytes of a text.
RECURSIVE Utf8Bytes(_)
Utf8Bytes(t) ==
    IF t = <<>> THEN <<>>
    ELSE LET c == Head(t)
             b == IF c < 128 THEN <<c>>
                  ELSE IF c < 2048 THEN <<192 + (c \div 64), 128 + (c % 64)>>
                  ELSE IF c < 65536
                       THEN <<224 + (c \div 4096), 128 + ((c \div 64) % 64),
                              128 + (c % 64)>>
                  ELSE <<240 + (c \div 262144), 128 + ((c \div 4096) % 64),
                         128 + ((c \div 64) % 64), 128 + (c % 64)>>
         IN  b \o Utf8Bytes(Tail(t))

\* C9: fix_mojibake_text never raises; it returns its input unchanged when
\* the input is not a text, or holds neither "Ã" nor "Â", or cannot be
\* encoded as Latin-1; any other result is the text whose UTF-8 bytes are
\* the Latin-1 bytes of the input; "descripciÃ³n" gives "descripción".
C9_UnchangedOrRoundTrip ==
    (call.fn = "fix" /\ ret.done) =>
        /\ ~ret.raised
        /\ ~IsStr(call.arg) => ret.val = call.arg
        /\ IsStr(call.arg) =>
              /\ IsStr(ret.val)
              /\ (\A i \in 1..Len(call.arg.v) : call.arg.v[i] \notin {194, 195})
                    => ret.val = call.arg
              /\ (\E i \in 1..Len(call.arg.v) : call.arg.v[i] > 255)
                    => ret.val = call.arg
              /\ ret.val # call.arg => Utf8Bytes(ret.val.v) = call.arg.v
              /\ call.arg.v = DescripcionMojibake => ret.val.v = Descripcion

\* "descripciÃ³n" was repaired to "descripción".
C9_Witness ==
    /\ call.fn = "fix" /\ ret.done
    /\ call.arg.v = DescripcionMojibake
    /\ ret.val = PyStr(Descripcion)

(***************************************************************************)
(* convert_mymaps_csv                                                      *)
(***************************************************************************)
\* The keyword and key lists of the column searches.
WktKeywords   == {<<119, 107, 116>>, <<112, 111, 105, 110, 116>>, <<103, 101, 111, 109, 101, 116, 114, 121>>}
    \* "wkt", "point", "geometry"
NombreKeys    == {<<110, 111, 109, 98, 114, 101>>, <<110, 97, 109, 101>>, <<116, 105, 116, 108, 101>>, <<112, 108, 97, 99, 101, 110, 97, 109, 101>>}
    \* "nombre", "name", "title", "placename"
DescrKeywords == {<<100, 101, 115, 99, 114, 105, 112>>, <<100, 101, 115, 99, 114, 105, 112, 116, 105, 111, 110>>, <<100, 101, 115, 99, 114, 105, 112, 99, 105, 243, 110>>, <<100, 101, 115, 99>>}
    \* "descrip", "description", "descripción", "desc"
DireccionKeys == {<<100, 105, 114, 101, 99, 99, 105, 111, 110>>, <<97, 100, 100, 114, 101, 115, 115>>, <<97, 100, 100, 114>>, <<115, 116, 114, 101, 101, 116>>}
    \* "direccion", "address", "addr", "street"
DescrMissing  == <<95, 95, 100, 101, 115, 99, 114, 95, 109, 105, 115, 115, 105, 110, 103, 95, 95>>
    \* "__descr_missing__"
LatName       == <<76, 97, 116>>       \* "Lat"
LngName       == <<76, 110, 103>>      \* "Lng"
NoneText      == <<78, 111, 110, 101>> \* str(None) is "None"
SampleSize    == 5

\* Series.astype(str), cell by cell: a text stays and a float becomes its
\* str(); a missing value becomes the text "nan" (NaN) or "None" (None) in
\* pandas before 3.0, and stays missing in the str columns of pandas 3.0 and
\* later.
astype_str(cell) ==
    IF IsStr(cell) THEN cell
    ELSE IF IsMissing(cell)
         THEN IF nan_as_text
              THEN PyStr(IF cell.t = "float" THEN Nan ELSE NoneText)
              ELSE PyNaN
    ELSE PyStr(float_repr(cell))

\* Series.fillna('')
fillna_empty(cell) == IF IsMissing(cell) THEN PyStr(<<>>) ELSE cell

\* The index of the column called name, 0 when df has none.
ColumnIndex(cols, name) ==
    LET at == {c \in 1..Len(cols) : cols[c] = name}
    IN  IF at = {} THEN 0 ELSE Min(at)

\* df[name] = cells on the table tbl: the column called name gets the cells,
\* a new last column when df has none of that name.
SetColumn(tbl, name, cells) ==
    LET k == ColumnIndex(tbl.columns, name)
    IN  IF k = 0
        THEN [columns |-> Append(tbl.columns, name),
              rows    |-> [i \in 1..Len(tbl.rows) |-> Append(tbl.rows[i], cells[i])]]
        ELSE [columns |-> tbl.columns,
              rows    |-> [i \in 1..Len(tbl.rows) |->
                              [tbl.rows[i] EXCEPT ![k] = cells[i]]]]

\* The cells of a column assigned from a list of floats and None: with a
\* float in the list the column is float64 and its None are NaN; a list of
\* None alone stays a column of None.
ListCells(vals) ==
    IF \A i \in 1..Len(vals) : vals[i].t = "NoneType" THEN vals
    ELSE [i \in 1..Len(vals) |-> IF vals[i].t = "NoneType" THEN PyNaN ELSE vals[i]]

\* What to_csv writes for a cell: the text, str() of a float, nothing for a
\* missing value.
to_csv(cell) ==
    IF IsStr(cell) THEN cell.v
    ELSE IF IsMissing(cell) THEN <<>>
    ELSE float_repr(cell)

\* {c.lower(): c for c in df.columns}: a key keeps the place of its first
\* insertion and the value of its last.  A column is held by its index.
RECURSIVE ColsLowerFrom(_, _, _)
ColsLowerFrom(cols, i, d) ==
    IF i > Len(cols) THEN d
    ELSE LET key == Lower(cols[i])
             at  == {k \in 1..Len(d) : d[k].key = key}
             new == [key |-> key, col |-> i]
         IN  ColsLowerFrom(cols, i + 1,
                IF at = {} THEN Append(d, new)
                ELSE [k \in 1..Len(d) |-> IF k \in at THEN new ELSE d[k]])

BuildColsLower(cols) == ColsLowerFrom(cols, 1, <<>>)

\* for name in cols_lower: if <kw in name for a kw of kws>: ... break
\* The column of the first key that contains a keyword, 0 (None) if none does.
FirstKeyContaining(d, kws) ==
    LET at == {k \in 1..Len(d) : \E kw \in kws : Contains(d[k].key, kw)}
    IN  IF at = {} THEN 0 ELSE d[Min(at)].col

\* for key in cols_lower: if key in keys: ... break
FirstKeyAmong(d, keys) ==
    LET at == {k \in 1..Len(d) : d[k].key \in keys}
    IN  IF at = {} THEN 0 ELSE d[Min(at)].col

\* df[c].dropna().astype(str).head(5).tolist()
RECURSIVE NonNullFrom(_, _, _)
NonNullFrom(rows, c, i) ==
    IF i > Len(rows) THEN <<>>
    ELSE IF IsMissing(rows[i][c]) THEN NonNullFrom(rows, c, i + 1)
    ELSE <<astype_str(rows[i][c]).v>> \o NonNullFrom(rows, c, i + 1)

SampleVals(rows, c) ==
    LET vals == NonNullFrom(rows, c, 1)
    IN  SubSeq(vals, 1, IF Len(vals) < SampleSize THEN Len(vals) ELSE SampleSize)

\* any(s.strip().upper().startswith('POINT') for s in sample_vals)
LooksLikePoint(rows, c) ==
    \E sample_vals \in {SampleVals(rows, c)} :
        \E i \in 1..Len(sample_vals) :
            StartsWith(Upper(StripChars(sample_vals[i], Whitespace)), POINT)

\* Lines 120-131: the geometry column, by name and then by sample values.
FindWktCol(d, cols, rows) ==
    LET by_name   == FirstKeyContaining(d, WktKeywords)
        by_sample == {c \in 1..Len(cols) : LooksLikePoint(rows, c)}
    IN  IF by_name # 0 THEN by_name
        ELSE IF by_sample # {} THEN Min(by_sample)
        ELSE 0

\* Lines 118-134 without the exit of lines 132-134.
LocateWktNoExit ==
    /\ pc = "locate_wkt"
    /\ cols_lower' = BuildColsLower(columns)
    /\ wkt_col' = FindWktCol(cols_lower', columns, df)
    /\ pc' = "locate_rest"
    /\ UNCHANGED <<in_columns, in_rows, columns, df, nombre_col, descr_col, final,
                   out_file, nan_as_text>>
    /\ UNCHANGED <<fnVars, appVars>>

\* Lines 118-134: build cols_lower, find the geometry column, and leave with
\* sys.exit(1) when there is none.
LocateWkt ==
    /\ pc = "locate_wkt"
    /\ cols_lower' = BuildColsLower(columns)
    /\ wkt_col' = FindWktCol(cols_lower', columns, df)
    /\ pc' = IF wkt_col' = 0 THEN "exit" ELSE "locate_rest"
    /\ UNCHANGED <<in_columns, in_rows, columns, df, nombre_col, descr_col, final,
                   out_file, nan_as_text>>
    /\ UNCHANGED <<fnVars, appVars>>

\* Lines 136-144: the label column, by key, else the first other column.
FindNombreCol(d, cols, wkt) ==
    LET by_key     == FirstKeyAmong(d, NombreKeys)
        candidates == {c \in 1..Len(cols) : c # wkt}
    IN  IF by_key # 0 THEN by_key
        ELSE IF candidates # {} THEN Min(candidates)
        ELSE 0

\* Lines 136-155: find the label and description columns; without a
\* description column, add the column __descr_missing__ of empty texts.
LocateRest ==
    /\ pc = "locate_rest"
    /\ nombre_col' = FindNombreCol(cols_lower, columns, wkt_col)
    /\ LET found == FirstKeyContaining(cols_lower, DescrKeywords)
           added == SetColumn([columns |-> columns, rows |-> df], DescrMissing,
                              [i \in 1..Len(df) |-> PyStr(<<>>)])
       IN  IF found # 0
           THEN /\ descr_col' = found
                /\ UNCHANGED <<columns, df>>
           ELSE /\ descr_col' = ColumnIndex(added.columns, DescrMissing)
                /\ columns' = added.columns
                /\ df' = added.rows
    /\ pc' = "transform"
    /\ UNCHANGED <<in_columns, in_rows, cols_lower, wkt_col, final, out_file,
                   nan_as_text>>
    /\ UNCHANGED <<fnVars, appVars>>

\* df[c] = df[c].astype(str).apply(fix_mojibake_text)
FixColumn(rows, c) ==
    [i \in 1..Len(rows) |->
        [rows[i] EXCEPT ![c] = fix_mojibake_text(astype_str(rows[i][c])).val]]

\* Lines 175-192: one row of the final DataFrame, from the row of df, the
\* five parts of its description and the indices of the columns read.
FinalRow(row, parts, nombre, descr, direccion, lat, lng) ==
    [CodigoZona          |-> PyStr(parts[1]),
     ZonaNombre          |-> PyStr(parts[2]),
     CodigoCliente       |-> PyStr(parts[3]),
     NombreCliente       |-> PyStr(parts[4]),
     Botica              |-> PyStr(StripChars(fillna_empty(astype_str(row[nombre])).v,
                                              Whitespace)),
     Referencias         |-> PyStr(parts[5]),
     Direccion           |-> IF direccion # 0
                             THEN fillna_empty(astype_str(row[direccion]))
                             ELSE PyStr(<<>>),
     Lat                 |-> row[lat],
     Lng                 |-> row[lng],
     DescripcionOriginal |-> astype_str(row[descr])]

\* Lines 157-163: the coordinates of each row's geometry, assigned to the
\* columns Lat and Lng of df.
WithLatLng(cols, rows, wkt) ==
    LET pairs == [i \in 1..Len(rows) |->
            extract_lon_lat_from_wkt(astype_str(fillna_empty(rows[i][wkt]))).val]
        with_lat == SetColumn([columns |-> cols, rows |-> rows], LatName,
                        ListCells([i \in 1..Len(rows) |-> pairs[i].lat]))
    IN  SetColumn(with_lat, LngName, ListCells([i \in 1..Len(rows) |-> pairs[i].lon]))

\* Lines 157-192: coordinates from the geometry column into the columns Lat
\* and Lng of df, the text repair of the label and description columns, the
\* split of each description, and the final DataFrame.  df[None] is a
\* KeyError that ends the run: at line 159 without a geometry column, at
\* line 166 without a label column.
Transform ==
    /\ pc = "transform"
    /\ IF wkt_col = 0
       THEN /\ pc' = "crashed"
            /\ UNCHANGED <<columns, df, final>>
       ELSE \E with_lng \in {WithLatLng(columns, df, wkt_col)} :
            /\ columns' = with_lng.columns
            /\ IF nombre_col = 0
               THEN /\ df' = with_lng.rows
                    /\ pc' = "crashed"
                    /\ UNCHANGED final
               ELSE \E fixed \in {FixColumn(FixColumn(with_lng.rows, nombre_col),
                                            descr_col)} :
                    /\ df' = fixed
                    /\ final' = [i \in 1..Len(fixed) |->
                          FinalRow(fixed[i],
                                   split_standard_description(fixed[i][descr_col]).val,
                                   nombre_col, descr_col,
                                   FirstKeyAmong(cols_lower, DireccionKeys),
                                   ColumnIndex(with_lng.columns, LatName),
                                   ColumnIndex(with_lng.columns, LngName))]
                    /\ pc' = "write"
    /\ UNCHANGED <<in_columns, in_rows, cols_lower, wkt_col, nombre_col, descr_col,
                   out_file, nan_as_text>>
    /\ UNCHANGED <<fnVars, appVars>>

\* Lines 194-206: final.to_csv(output_path) creates the output file.
WriteOutput ==
    /\ pc = "write"
    /\ out_file' = [created |-> TRUE,
                    rows    |-> [i \in 1..Len(final) |->
                                    [f \in DOMAIN final[i] |-> to_csv(final[i][f])]]]
    /\ pc' = "done"
    /\ UNCHANGED <<in_columns, in_rows, columns, df, cols_lower, wkt_col, nombre_col,
                   descr_col, final, nan_as_text>>
    /\ UNCHANGED <<fnVars, appVars>>

(***************************************************************************)
(* SpecConv: one run of convert_mymaps_csv on an input file drawn below.   *)
(***************************************************************************)
\* The header names drawn: "WKT", "wkt", "Geometry", "nombre", "descripción"
\* and "Lat".
ColumnNames ==
    {<<87, 75, 84>>, <<119, 107, 116>>, <<71, 101, 111, 109, 101, 116, 114, 121>>,
     <<110, 111, 109, 98, 114, 101>>,
     <<100, 101, 115, 99, 114, 105, 112, 99, 105, 243, 110>>, LatName}

\* The headers of a file of k columns: k different names, in any order.
Layouts(k) == {h \in [1..k -> ColumnNames] : \A i, j \in 1..k : h[i] = h[j] => i = j}

\* The cells drawn: a column holds either the geometry or the text of each
\* row, and a row has each of them or an empty cell (NaN).
GeoCell  == PyStr(BuildWkt("plain", Lon7703, Lat1205))     \* "POINT (-77.03 -12.05)"
TextCell == PyStr(<<65, 32, 45, 32, 66>>)                  \* "A - B"
RowKinds == {[geo |-> GeoCell, txt |-> TextCell],
             [geo |-> GeoCell, txt |-> PyNaN],
             [geo |-> PyNaN,   txt |-> PyNaN]}

\* A file of two rows: an empty row, then a row with geometry and text.
MixedRows == <<[geo |-> PyNaN, txt |-> PyNaN], [geo |-> GeoCell, txt |-> TextCell]>>

\* The rows drawn: up to MaxRows rows of any kind, and the two mixed rows.
RowLists == UNION {[1..m -> RowKinds] : m \in 0..MaxRows} \cup {MixedRows}

InputTables(k) ==
    {[i \in 1..Len(rows) |->
        [j \in 1..k |-> IF holds[j] = "geo" THEN rows[i].geo ELSE rows[i].txt]] :
        holds \in [1..k -> {"geo", "txt"}], rows \in RowLists}

InitConv ==
    /\ call = TextCall("none", PyNone) /\ ret = NotCalled
    /\ AppIdle
    /\ \E k \in 1..MaxCols :
          /\ in_columns \in Layouts(k)
          /\ in_rows \in InputTables(k)
    /\ columns = in_columns
    /\ df = in_rows
    /\ cols_lower = <<>>
    /\ pc = "locate_wkt"
    /\ wkt_col = 0 /\ nombre_col = 0 /\ descr_col = 0
    /\ final = <<>>
    /\ out_file = [created |-> FALSE, rows |-> <<>>]
    /\ nan_as_text \in BOOLEAN

NextConv == LocateWkt \/ LocateRest \/ Transform \/ WriteOutput

SpecConv == InitConv /\ [][NextConv]_vars

(***************************************************************************)
(* Claims about convert_mymaps_csv, checked under SpecConv.                *)
(***************************************************************************)
\* The run is over: the file was written, the run left with sys.exit(1), or
\* an exception ended it.
Finished == pc \in {"done", "exit", "crashed"}

\* The number of columns of the input file.
FileWidth == Len(in_columns)

\* Columns of the input file whose lowercased name holds a geometry keyword.
NamedGeometry ==
    {c \in 1..FileWidth : \E kw \in WktKeywords : Contains(Lower(in_columns[c]), kw)}

\* Columns of the input file with a sample value that starts with POINT.
SampledGeometry ==
    {c \in 1..FileWidth : LooksLikePoint(in_rows, c)}

\* C3: for an input file with a locatable geometry column, the run writes
\* exactly one output row per input row, in the input order; a row without
\* parseable geometry is written with empty Lat and Lng.
C3_OneRowPerInputRow ==
    (Finished /\ NamedGeometry \cup SampledGeometry # {}) =>
        /\ out_file.created
        /\ Len(out_file.rows) = Len(in_rows)
        /\ \A i \in 1..Len(in_rows) :
              LET cell == in_rows[i][wkt_col]
                  want == extract_lon_lat_from_wkt(fillna_empty(cell)).val
              IN  /\ out_file.rows[i].Lat = to_csv(want.lat)
                  /\ out_file.rows[i].Lng = to_csv(want.lon)

\* C6: when no geometry column can be located, by name or by sample values,
\* the run ends in the fatal exit, and no run that ends there has created
\* the output file.
C6_AbortBeforeOutput ==
    /\ pc \notin {"locate_wkt", "exit"} => (NamedGeometry # {} \/ SampledGeometry # {})
    /\ pc = "exit" =>
          /\ NamedGeometry = {} /\ SampledGeometry = {}
          /\ ~out_file.created /\ out_file.rows = <<>>

\* A file with rows and no geometry column ended in the fatal exit.
C6_Witness ==
    /\ pc = "exit" /\ Len(in_rows) > 0
    /\ wkt_col = 0 /\ ~out_file.created

\* Row i of the input has no description: the file has no description
\* column, or the cell is empty.
DescriptionMissing(i) ==
    \/ descr_col > Len(in_rows[i])
    \/ ~IsStr(in_rows[i][descr_col])
    \/ in_rows[i][descr_col].v = <<>>

\* C7: every input row whose description is missing or empty, also when the
\* file has no description column, is written with "x" in CodigoZona,
\* ZonaNombre, CodigoCliente, NombreCliente and Referencias.
C7_MissingDescriptionIsX ==
    pc = "done" =>
        \A i \in 1..Len(in_rows) :
            DescriptionMissing(i) =>
                /\ out_file.rows[i].CodigoZona = X
                /\ out_file.rows[i].ZonaNombre = X
                /\ out_file.rows[i].CodigoCliente = X
                /\ out_file.rows[i].NombreCliente = X
                /\ out_file.rows[i].Referencias = X

\* C8: the geometry column found is the first column, in file order, whose
\* lowercased name holds "wkt", "point" or "geometry"; without one, the
\* first column with a sample value that starts with POINT; for every list
\* of column names, also names that differ only in letter case.
C8_FirstMatchingColumn ==
    pc # "locate_wkt" =>
        wkt_col = IF NamedGeometry # {} THEN Min(NamedGeometry)
                  ELSE IF SampledGeometry # {} THEN Min(SampledGeometry)
                  ELSE 0

(***************************************************************************)
(* app.py: the filter control of the dashboard script.  Streamlit runs the *)
(* whole script again after every interaction with a widget; the values of *)
(* st.session_state outlive the run.  The lists of selected names are kept *)
(* as sets.                                                                *)
(***************************************************************************)
\* data/clientes.csv after cargar_datos: the zone and the botica of each row.
Clientes ==
    {[CodigoZona |-> "SU01", Botica |-> "B1"],
     [CodigoZona |-> "SU01", Botica |-> "B2"],
     [CodigoZona |-> "SU02", Botica |-> "B2"],
     [CodigoZona |-> "SU02", Botica |-> "B3"],
     [CodigoZona |-> "SU03", Botica |-> "B4"]}

zonas_disponibles == {r.CodigoZona : r \in Clientes}

\* Lines 43-46: the rows of the selected zones.
df_zonas(zs) == IF zs # {} THEN {r \in Clientes : r.CodigoZona \in zs} ELSE {}

\* Lines 49-52: the boticas offered by the second multiselect.
boticas_disponibles(zs) == {r.Botica : r \in df_zonas(zs)}

\* Lines 82-89: the rows shown.
Filtrado(zs, filtrar, filtradas) ==
    IF df_zonas(zs) # {}
    THEN IF filtrar /\ filtradas # {}
         THEN {r \in df_zonas(zs) : r.Botica \in filtradas}
         ELSE df_zonas(zs)
    ELSE {}

\* One run of the script without lines 75-77, which switch the filter off
\* when the botica selection is empty.
RerunNoClear(zs, bs, pressed) ==
    LET filtrar   == IF pressed THEN TRUE ELSE filtrar_boticas
        filtradas == IF pressed THEN bs ELSE boticas_filtradas
    IN  /\ zonas_sel' = zs
        /\ boticas_sel' = bs
        /\ button_pressed' = pressed
        /\ filtrar_boticas' = filtrar
        /\ boticas_filtradas' = filtradas
        /\ df_filtrado' = Filtrado(zs, filtrar, filtradas)
        /\ UNCHANGED <<fnVars, convVars>>

\* One run of the script with the multiselects at zs and bs and the button
\* pressed or not: lines 70-72 store the selection when the button was
\* pressed, lines 75-77 switch the filter off when the selection is empty,
\* lines 82-89 filter the rows.
Rerun(zs, bs, pressed) ==
    LET filtrar1   == IF pressed THEN TRUE ELSE filtrar_boticas
        filtradas1 == IF pressed THEN bs ELSE boticas_filtradas
        clear      == bs = {} /\ filtrar1
        filtrar2   == IF clear THEN FALSE ELSE filtrar1
        filtradas2 == IF clear THEN {} ELSE filtradas1
    IN  /\ zonas_sel' = zs
        /\ boticas_sel' = bs
        /\ button_pressed' = pressed
        /\ filtrar_boticas' = filtrar2
        /\ boticas_filtradas' = filtradas2
        /\ df_filtrado' = Filtrado(zs, filtrar2, filtradas2)
        /\ UNCHANGED <<fnVars, convVars>>

\* What the botica multiselect holds after the zones changed to zs: its
\* value when its options are the same; with other options Streamlit builds
\* the widget anew (empty), or keeps the selected names still offered,
\* depending on its version.
BoticasAfterZonas(zs) ==
    IF boticas_disponibles(zs) = boticas_disponibles(zonas_sel)
    THEN {boticas_sel}
    ELSE {{}, boticas_sel \cap boticas_disponibles(zs)}

\* The user changes the zone selection.
ChangeZonas ==
    \E zs \in SUBSET zonas_disponibles :
        /\ zs # zonas_sel
        /\ \E bs \in BoticasAfterZonas(zs) : Rerun(zs, bs, FALSE)

\* The user changes the botica selection.
ChangeBoticas ==
    \E bs \in SUBSET boticas_disponibles(zonas_sel) :
        /\ bs # boticas_sel
        /\ Rerun(zonas_sel, bs, FALSE)

\* The user presses "Aplicar filtro de Boticas".
PressButton == Rerun(zonas_sel, boticas_sel, TRUE)

\* A rerun that no sidebar widget caused, such as an interaction with the
\* map of line 130: the selections stay and the button returns False.
OtherRerun == Rerun(zonas_sel, boticas_sel, FALSE)

FnIdle == call = TextCall("none", PyNone) /\ ret = NotCalled

\* The session after the first run of the script: nothing selected, lines
\* 64-67 have set the two session values.
InitApp ==
    /\ FnIdle
    /\ ConvIdle
    /\ zonas_sel = {} /\ boticas_sel = {} /\ button_pressed = FALSE
    /\ filtrar_boticas = FALSE /\ boticas_filtradas = {}
    /\ df_filtrado = {}

NextApp == ChangeZonas \/ ChangeBoticas \/ PressButton \/ OtherRerun

SpecApp == InitApp /\ [][NextApp]_vars

\* C10: at the end of every rerun, filtrar_boticas is true exactly when
\* boticas_filtradas is non-empty, and with an empty botica selection the
\* filter is inactive, also in the rerun where the button was pressed with
\* an empty selection.
C10_FilterStateConsistent ==
    /\ filtrar_boticas <=> boticas_filtradas # {}
    /\ boticas_sel = {} => (~filtrar_boticas /\ boticas_filtradas = {})

\* The button was pressed with zones selected and no botica selected, and
\* the filter is inactive.
C10_Witness ==
    /\ button_pressed /\ zonas_sel # {} /\ boticas_sel = {}
    /\ ~filtrar_boticas /\ boticas_filtradas = {}

=============================================================================
